---- MODULE Spec2Model ----
(***************************************************************************)
(* AbdoPro: the algorithm engine (src/js/algorithms/engine.js), its five   *)
(* strategies (linear, banister, dup, rir, regression), the scorer and the *)
(* math helpers they share.                                                *)
(*                                                                         *)
(* Numbers.  The JavaScript code computes on IEEE doubles.  The model      *)
(* computes the same quantities exactly on integers: Math.round(p/q) is    *)
(* RoundDiv(p, q) (round half up), Math.ceil(p/q) is CeilDiv(p, q), scores *)
(* with one decimal are kept in tenths (50.0 is 500), the RIR value is     *)
(* kept in tenths (3.5 is 35).  On the input domain of this module         *)
(* (test max below 25) the doubles and the exact values round alike.       *)
(*                                                                         *)
(* A plan is a sequence of six days (day2..day7 of the code, in order),    *)
(* each a record [series, reps, rest]; the display label `type` of a day   *)
(* is not modelled.  An operation that can raise a JavaScript exception    *)
(* yields a record with a field `threw`.                                   *)
(***************************************************************************)
EXTENDS Integers, Sequences, FiniteSets, TLC

(* ------------------------------------------------------------------ *)
(* Bounds of the model                                                 *)
(* ------------------------------------------------------------------ *)
\* largest week number a call is made with
MaxWeek == 4
\* largest number of past weeks in a history
MaxHist == 2

\* the largest ratio and the longest list of ratios given to distributeVolume
MaxRatio == 2

MaxRatios == 3
MaxPoints == 3
MaxTrendWeeks == 4

(* ------------------------------------------------------------------ *)
(* utils/math.js                                                       *)
(* ------------------------------------------------------------------ *)
Max(a, b) == IF a >= b THEN a ELSE b

Min(a, b) == IF a <= b THEN a ELSE b

Abs(a) == IF a < 0 THEN 0 - a ELSE a

\* Math.round(p / q) for q > 0: the nearest integer, halves upwards
RoundDiv(p, q) == (2 * p + q) \div (2 * q)

\* Math.ceil(p / q) for q > 0
CeilDiv(p, q) == 0 - ((0 - p) \div q)

RECURSIVE Pow(_, _)
Pow(b, e) == IF e <= 0 THEN 1 ELSE b * Pow(b, e - 1)

\* clamp(value, min, max) = Math.max(min, Math.min(max, value))
clamp(value, min, max) == Max(min, Min(max, value))

RECURSIVE SeqSum(_)
SeqSum(s) == IF s = <<>> THEN 0 ELSE Head(s) + SeqSum(Tail(s))

\* calculateRest(reps, baseRest, threshold, additionalRest, chunk)
calculateRest(reps, baseRest, threshold, additionalRest, chunk) ==
  IF reps <= threshold THEN baseRest
  ELSE baseRest + ((reps - threshold) \div chunk) * additionalRest

\* index of the first largest element: distribution.indexOf(Math.max(...))
FirstMaxIndex(s) ==
  CHOOSE i \in 1..Len(s) :
    /\ \A j \in 1..Len(s) : s[j] <= s[i]
    /\ \A j \in 1..(i - 1) : s[j] < s[i]

\* a distributeVolume that returns the rounded shares as they are
distributeVolumeUncorrected(totalTenths, ratios) ==
  IF SeqSum(ratios) = 0 THEN [i \in 1..Len(ratios) |-> 0]
  ELSE [i \in 1..Len(ratios) |-> RoundDiv(totalTenths * ratios[i], 10 * SeqSum(ratios))]

\* distributeVolume(totalVolume, ratios) for a total given in tenths and
\* ratios of sum >= 0: the rounded shares, the first largest one corrected
\* by what the sum lacks to Math.round(totalVolume)
distributeVolumeTenths(totalTenths, ratios) ==
  LET Corrected(distribution, diff) ==
        IF diff # 0
        THEN [distribution EXCEPT
                ![FirstMaxIndex(distribution)] = distribution[FirstMaxIndex(distribution)] + diff]
        ELSE distribution
      Reconciled(distribution) ==
        Corrected(distribution, RoundDiv(totalTenths, 10) - SeqSum(distribution))
      Shares(totalRatio) ==
        Reconciled([i \in 1..Len(ratios) |->
                      RoundDiv(totalTenths * ratios[i], 10 * totalRatio)])
  IN  IF ratios = <<>> THEN <<>>
      ELSE IF SeqSum(ratios) = 0 THEN [i \in 1..Len(ratios) |-> 0]
      ELSE Shares(SeqSum(ratios))

\* distributeVolume(totalVolume, ratios) for an integer total, the ratios
\* given in hundredths
distributeVolume(totalVolume, ratios) == distributeVolumeTenths(10 * totalVolume, ratios)

(* ------------------------------------------------------------------ *)
(* engine.js: constants                                                *)
(* ------------------------------------------------------------------ *)
REPS_MIN == 3

SERIES_MIN == 2

SERIES_MAX == 10

REST_MIN == 20

REST_MAX == 180

SERIES_MULTIPLIER == 2

REPS_DIVISOR == 2

REST_REDUCTION == 15

IMPOSSIBLE_REST_FLOOR == 30

BEGINNER_THRESHOLD == 5

\* BEGINNER_PLAN = { series: 5, reps: 3, rest: 90 }
BEGINNER_PLAN == [series |-> 5, reps |-> 3, rest |-> 90]

\* the order in which initialize() registers the strategies
AlgorithmOrder == <<"linear", "banister", "dup", "rir", "regression">>

AlgorithmNames == {AlgorithmOrder[i] : i \in 1..Len(AlgorithmOrder)}

\* Math.ceil(testMax * SAFETY_BOUNDS.REPS_MAX_RATIO), the ratio being 1.2
MaxReps(testMax) == CeilDiv(6 * testMax, 5)

\* ELIGIBILITY_MAP: the first entry whose maxWeek is not below the week
ELIGIBILITY_MAP ==
  << [maxWeek |-> 1, algorithms |-> <<"linear">>],
     [maxWeek |-> 2, algorithms |-> <<"linear", "rir">>],
     [maxWeek |-> 3, algorithms |-> <<"linear", "dup", "rir">>] >>

ALL_ELIGIBLE == <<"linear", "banister", "dup", "rir", "regression">>

\* a getEligibleAlgorithms that compares with < instead of <=
getEligibleAlgorithmsStrict(weekNumber) ==
  IF \E i \in 1..Len(ELIGIBILITY_MAP) : weekNumber < ELIGIBILITY_MAP[i].maxWeek
  THEN LET first == CHOOSE i \in 1..Len(ELIGIBILITY_MAP) :
                      /\ weekNumber < ELIGIBILITY_MAP[i].maxWeek
                      /\ \A j \in 1..(i - 1) : weekNumber >= ELIGIBILITY_MAP[j].maxWeek
       IN  ELIGIBILITY_MAP[first].algorithms
  ELSE ALL_ELIGIBLE

\* getEligibleAlgorithms(weekNumber)
getEligibleAlgorithms(weekNumber) ==
  IF \E i \in 1..Len(ELIGIBILITY_MAP) : weekNumber <= ELIGIBILITY_MAP[i].maxWeek
  THEN LET first == CHOOSE i \in 1..Len(ELIGIBILITY_MAP) :
                      /\ weekNumber <= ELIGIBILITY_MAP[i].maxWeek
                      /\ \A j \in 1..(i - 1) : weekNumber > ELIGIBILITY_MAP[j].maxWeek
       IN  ELIGIBILITY_MAP[first].algorithms
  ELSE ALL_ELIGIBLE

\* the fixed plan of the beginner mode, days 2 to 7
BeginnerDays == [d \in 1..6 |-> BEGINNER_PLAN]

\* a value returned by a plan operation / an exception raised by it
Returned(plan) == [threw |-> FALSE, plan |-> plan]

Thrown == [threw |-> TRUE, plan |-> <<>>]

(* ------------------------------------------------------------------ *)
(* Inputs of the engine                                                *)
(*                                                                     *)
(* A week of the history is the record State.getAlgorithmHistory       *)
(* builds: weekNumber, testMax (0: no test recorded), the strategy     *)
(* selected that week, the feedback summary (counts of facile, parfait *)
(* and impossible sessions, rirMoyen in tenths) and the sessions.  The *)
(* sessions carry no recorded volume; `lastFeedback` is the feedback   *)
(* of the last completed training session ("none": no such session)    *)
(* and `corrupt` says that the list ends with a null entry, the one    *)
(* malformed datum of the domain: reading a field of it raises a       *)
(* TypeError.                                                          *)
(* ------------------------------------------------------------------ *)
WeekProfiles ==
  { [testMax |-> 10, selectedAlgorithm |-> "linear", facile |-> 4, parfait |-> 1,
     impossible |-> 0, rirMoyen |-> 35, lastFeedback |-> "facile", corrupt |-> FALSE],
    [testMax |-> 12, selectedAlgorithm |-> "rir", facile |-> 1, parfait |-> 4,
     impossible |-> 0, rirMoyen |-> 20, lastFeedback |-> "parfait", corrupt |-> FALSE],
    [testMax |-> 10, selectedAlgorithm |-> "linear", facile |-> 0, parfait |-> 2,
     impossible |-> 3, rirMoyen |-> 5, lastFeedback |-> "impossible", corrupt |-> TRUE],
    [testMax |-> 0, selectedAlgorithm |-> "dup", facile |-> 0, parfait |-> 0,
     impossible |-> 0, rirMoyen |-> 20, lastFeedback |-> "none", corrupt |-> FALSE],
    [testMax |-> 11, selectedAlgorithm |-> "banister", facile |-> 2, parfait |-> 3,
     impossible |-> 1, rirMoyen |-> 10, lastFeedback |-> "parfait", corrupt |-> FALSE] }

\* week i of a history is the week numbered i
WithWeekNumber(p, i) ==
  [weekNumber |-> i, testMax |-> p.testMax, selectedAlgorithm |-> p.selectedAlgorithm,
   facile |-> p.facile, parfait |-> p.parfait, impossible |-> p.impossible,
   rirMoyen |-> p.rirMoyen, lastFeedback |-> p.lastFeedback, corrupt |-> p.corrupt]

Histories ==
  UNION { { [i \in 1..n |-> WithWeekNumber(f[i], i)] : f \in [1..n -> WeekProfiles] }
          : n \in 0..MaxHist }

\* test maxima of the calls: the beginner range 1..4 and values from 5 on
TestMaxValues == {1, 2, 3, 4, 5, 12, 14}

\* test maxima passed as BigInt (3n, 12n)
BigIntTestMaxValues == {3, 12}

\* week numbers of the calls, the invalid ones (negative, zero) included
WeekNumbers == (0 - 1)..MaxWeek

\* week numbers of the calls of getEligibleAlgorithms, up to week 10 and beyond
EligibilityWeeks == (0 - 1)..(MaxWeek + 6)

\* totals given to distributeVolume, in tenths: 0, 0.4, 0.5, 1.5, 2.5, 7.3, 100
VolumeTotals == {0, 4, 5, 15, 25, 73, 1000}

\* lists of ratios given to distributeVolume
RatioLists == UNION {[1..n -> 0..MaxRatio] : n \in 1..MaxRatios}

\* the test maxima of the histories given to calculateTrendScore, oldest
\* first; 0 is a week without a test max
TrendSeries == UNION {[1..n -> {0, 19, 20, 21, 22}] : n \in 0..MaxTrendWeeks}

\* the average RIR of a week, in tenths: 0.0 to 4.0, as the rounded means
\* of the RIR 0, 2 and 4 of the feedbacks are
RirAverages == 0..40

\* the points [x, y] given to fitLinear and fitPolynomial: x a week
\* number, y a test max
PointLists == UNION {[1..n -> [x : 1..MaxWeek, y : {1, 2, 4}]] : n \in 0..MaxPoints}

(* ------------------------------------------------------------------ *)
(* linear.js                                                           *)
(* ------------------------------------------------------------------ *)
\* DAILY_VOLUME_RATIOS, in hundredths
LINEAR_DAILY_VOLUME_RATIOS == <<20, 18, 15, 18, 17, 12>>

\* INTENSITY_ZONES (repsRatio in hundredths) with the REST_CONFIG of their type
INTENSITY_ZONES ==
  << [repsRatio |-> 60, seriesMin |-> 5, seriesMax |-> 6,
      baseRest |-> 50, threshold |-> 15, addPer |-> 8, chunkSize |-> 5],
     [repsRatio |-> 70, seriesMin |-> 4, seriesMax |-> 5,
      baseRest |-> 60, threshold |-> 20, addPer |-> 10, chunkSize |-> 5],
     [repsRatio |-> 80, seriesMin |-> 3, seriesMax |-> 4,
      baseRest |-> 75, threshold |-> 20, addPer |-> 10, chunkSize |-> 5],
     [repsRatio |-> 65, seriesMin |-> 4, seriesMax |-> 5,
      baseRest |-> 50, threshold |-> 15, addPer |-> 8, chunkSize |-> 5],
     [repsRatio |-> 70, seriesMin |-> 4, seriesMax |-> 5,
      baseRest |-> 60, threshold |-> 20, addPer |-> 10, chunkSize |-> 5],
     [repsRatio |-> 55, seriesMin |-> 5, seriesMax |-> 6,
      baseRest |-> 50, threshold |-> 15, addPer |-> 8, chunkSize |-> 5] >>

\* _getLastTestMax(history): the most recent positive test max, else 10
RECURSIVE getLastTestMax(_)
getLastTestMax(history) ==
  IF history = <<>> THEN 10
  ELSE IF history[Len(history)].testMax > 0 THEN history[Len(history)].testMax
  ELSE getLastTestMax(SubSeq(history, 1, Len(history) - 1))

\* round(base * (1 + WEEKLY_PROGRESSION_RATE) ^ e), the rate being 0.10
GrowTenPercent(base, e) ==
  IF e >= 0 THEN RoundDiv(base * Pow(11, e), Pow(10, e))
  ELSE RoundDiv(base * Pow(10, 0 - e), Pow(11, 0 - e))

\* LinearAlgorithm.predictTestMax(weekNumber, history)
LinearPredict(weekNumber, history) ==
  IF history = <<>> THEN 1
  ELSE LET lastTestMax == getLastTestMax(history)
           lastWeekNumber == history[Len(history)].weekNumber
           weeksDelta == Max(1, weekNumber - lastWeekNumber)
       IN  Max(1, GrowTenPercent(lastTestMax, weeksDelta))

\* LinearAlgorithm._calculateWeeklyVolume(weekNumber, testMax)
LinearWeeklyVolume(weekNumber, testMax) == GrowTenPercent(testMax * 3, weekNumber - 1)

\* LinearAlgorithm._generateDayPlan(dayVolume, testMax, zone)
LinearDayPlan(dayVolume, testMax, zone) ==
  LET maxReps == MaxReps(testMax)
      reps0 == clamp(RoundDiv(testMax * zone.repsRatio, 100), 3, maxReps)
      series0 == IF reps0 > 0 THEN RoundDiv(dayVolume, reps0) ELSE zone.seriesMin
      series1 == clamp(series0, zone.seriesMin, zone.seriesMax)
      reps1 == IF 10 * series1 * reps0 < 8 * dayVolume /\ reps0 < maxReps
               THEN clamp(RoundDiv(dayVolume, series1), 3, maxReps)
               ELSE reps0
      series == clamp(series1, 2, 10)
      reps == clamp(reps1, 3, maxReps)
      rest == clamp(calculateRest(reps, zone.baseRest, zone.threshold, zone.addPer,
                                  zone.chunkSize), 20, 180)
  IN  [series |-> series, reps |-> reps, rest |-> rest]

\* LinearAlgorithm.generatePlan(weekNumber, testMax, history).  The
\* history is not read.  With a BigInt test max the product
\* testMax * BASE_VOLUME_MULTIPLIER raises a TypeError.
LinearGeneratePlan(weekNumber, testMax, isBigInt, history) ==
  IF testMax < 5 THEN Returned(BeginnerDays)
  ELSE IF isBigInt THEN Thrown
  ELSE LET dailyVolumes == distributeVolume(LinearWeeklyVolume(weekNumber, testMax),
                                            LINEAR_DAILY_VOLUME_RATIOS)
       IN  Returned([i \in 1..6 |-> LinearDayPlan(dailyVolumes[i], testMax, INTENSITY_ZONES[i])])

(* ------------------------------------------------------------------ *)
(* utils/math.js: trend, series from a volume                          *)
(* ------------------------------------------------------------------ *)
\* a detectTrend that tests monotony before stagnation
detectTrendMonotonyFirst(values) ==
  IF Len(values) < 2 THEN "insufficient"
  ELSE LET first == values[1]
           last == values[Len(values)]
           increasing == \A i \in 2..Len(values) : values[i] >= values[i - 1]
           decreasing == \A i \in 2..Len(values) : values[i] <= values[i - 1]
       IN  IF first = 0 THEN "insufficient"
           ELSE IF increasing THEN "increasing"
           ELSE IF decreasing THEN "decreasing"
           ELSE IF 20 * Abs(last - first) < first THEN "stagnant"
           ELSE IF last > first THEN "increasing" ELSE "decreasing"

\* detectTrend(values): the stagnation test (variation below 5 %) comes
\* before the test of monotony
detectTrend(values) ==
  IF Len(values) < 2 THEN "insufficient"
  ELSE LET first == values[1]
           last == values[Len(values)]
           increasing == \A i \in 2..Len(values) : values[i] >= values[i - 1]
           decreasing == \A i \in 2..Len(values) : values[i] <= values[i - 1]
       IN  IF first = 0 THEN "insufficient"
           ELSE IF 20 * Abs(last - first) < first THEN "stagnant"
           ELSE IF increasing THEN "increasing"
           ELSE IF decreasing THEN "decreasing"
           ELSE IF last > first THEN "increasing" ELSE "decreasing"

\* volumeToSeriesReps(targetVolume, testMax)
volumeToSeriesReps(targetVolume, testMax) ==
  LET safeVolume == Max(6, targetVolume)
      series0 == IF safeVolume < 30 THEN 3 ELSE IF safeVolume < 60 THEN 4 ELSE 5
      reps == clamp(RoundDiv(safeVolume, series0), 3, MaxReps(testMax))
      series == IF reps * series0 # safeVolume
                THEN clamp(RoundDiv(safeVolume, reps), 2, 10)
                ELSE series0
  IN  [series |-> series, reps |-> reps]

\* the positive test maxima of the history, oldest first
RECURSIVE PositiveTestMaxes(_)
PositiveTestMaxes(history) ==
  IF history = <<>> THEN <<>>
  ELSE IF Head(history).testMax > 0
       THEN <<Head(history).testMax>> \o PositiveTestMaxes(Tail(history))
       ELSE PositiveTestMaxes(Tail(history))

\* _getRecentTestMaxes(history, count): the last `count` positive test
\* maxima, oldest first
getRecentTestMaxes(history, count) ==
  LET all == PositiveTestMaxes(history)
  IN  SubSeq(all, Max(1, Len(all) - count + 1), Len(all))

\* some week's session list holds a null entry
HasCorruptSessions(history) == \E i \in 1..Len(history) : history[i].corrupt

(* ------------------------------------------------------------------ *)
(* banister.js                                                         *)
(* ------------------------------------------------------------------ *)
\* DAY_TYPES of days 2..7 with their DAY_CHARGE_MODIFIERS (hundredths)
\* and the rest factor of _calculateDayRest (hundredths)
BANISTER_DAYS ==
  << [type |-> "RECOVERY", modifier |-> 70, restFactor |-> 85],
     [type |-> "MODERATE", modifier |-> 85, restFactor |-> 100],
     [type |-> "INTENSE", modifier |-> 100, restFactor |-> 115],
     [type |-> "MODERATE", modifier |-> 85, restFactor |-> 100],
     [type |-> "MODERATE", modifier |-> 85, restFactor |-> 100],
     [type |-> "LIGHT", modifier |-> 60, restFactor |-> 80] >>

\* _getBasePerformance(history): the first positive test max, else 10
BanisterBasePerformance(history) ==
  LET all == PositiveTestMaxes(history)
  IN  IF all = <<>> THEN 10 ELSE all[1]

\* banisterPerformance(pBase, sessions, day).performance: the sessions of
\* the domain carry no volume, so _flattenSessions returns no session, the
\* fitness and fatigue sums are 0 and the performance is max(1, pBase).
\* _flattenSessions reads session.dayNumber of every entry and raises a
\* TypeError on a null one.
BanisterPerformance(history) == Max(1, BanisterBasePerformance(history))

\* netEffectPerUnit(sessionDay, testDay) > 0: with k1 = 1, k2 = 2,
\* tau1 = 45, tau2 = 15 the effect e^(-dt/45) - 2 e^(-dt/15) is positive
\* exactly for dt > 22.5 ln 2 = 15.6, and it is 0 for dt <= 0
NetEffectPositive(sessionDay, testDay) == testDay - sessionDay >= 16

\* BanisterAlgorithm.predictTestMax(weekNumber, history)
BanisterPredict(weekNumber, history) ==
  IF history = <<>> THEN [threw |-> FALSE, value |-> 1]
  ELSE IF HasCorruptSessions(history) THEN [threw |-> TRUE, value |-> 0]
  ELSE [threw |-> FALSE, value |-> Max(1, BanisterPerformance(history))]

\* _calculateOptimalCharge(estimatedPerformance, netEffect, dayType)
BanisterOptimalCharge(estimatedPerformance, netPositive, day) ==
  LET chargeRatio == IF netPositive THEN 80 ELSE 60
  IN  Max(6, RoundDiv(estimatedPerformance * chargeRatio * day.modifier, 10000))

\* _calculateDayRest(reps, dayType)
BanisterDayRest(reps, day) == clamp(RoundDiv((45 + reps * 2) * day.restFactor, 100), 20, 180)

\* BanisterAlgorithm.generatePlan(weekNumber, testMax, history)
BanisterGeneratePlan(weekNumber, testMax, isBigInt, history) ==
  IF testMax < 5 THEN Returned(BeginnerDays)
  ELSE IF HasCorruptSessions(history) \/ isBigInt THEN Thrown
  ELSE LET nextTestDay == weekNumber * 7 + 1
           DayOf(i) ==
             LET sessionDay == (weekNumber - 1) * 7 + (i + 1)
                 charge == BanisterOptimalCharge(BanisterPerformance(history),
                             NetEffectPositive(sessionDay, nextTestDay), BANISTER_DAYS[i])
                 sr == volumeToSeriesReps(charge, testMax)
             IN  [series |-> sr.series, reps |-> sr.reps,
                  rest |-> BanisterDayRest(sr.reps, BANISTER_DAYS[i])]
       IN  Returned([i \in 1..6 |-> DayOf(i)])

(* ------------------------------------------------------------------ *)
(* dup.js                                                              *)
(* ------------------------------------------------------------------ *)
\* TRAINING_PROFILES in the order of DAILY_ROTATION (repsRatio in hundredths)
DUP_ENDURANCE ==
  [seriesBase |-> 5, repsRatio |-> 65, baseRest |-> 40, threshold |-> 15,
   addPer |-> 3, chunkSize |-> 1]

DUP_HYPERTROPHIE ==
  [seriesBase |-> 4, repsRatio |-> 75, baseRest |-> 70, threshold |-> 20,
   addPer |-> 2, chunkSize |-> 1]

DUP_FORCE ==
  [seriesBase |-> 3, repsRatio |-> 90, baseRest |-> 100, threshold |-> 25,
   addPer |-> 2, chunkSize |-> 1]

DAILY_ROTATION ==
  <<DUP_ENDURANCE, DUP_HYPERTROPHIE, DUP_FORCE, DUP_ENDURANCE, DUP_HYPERTROPHIE, DUP_ENDURANCE>>

\* _feedbackAdjustment(week), in hundredths
DupFeedbackAdjustment(week) ==
  (IF week.facile >= 4 THEN 2 ELSE 0) + (IF week.impossible >= 1 THEN 0 - 2 ELSE 0)

\* _trendAdjustment(history), in hundredths
DupTrendAdjustment(history) ==
  LET Of(recentMaxes, trend) ==
        IF Len(recentMaxes) < 3 THEN 0
        ELSE CASE trend = "increasing" -> 1
               [] trend = "stagnant" -> 0 - 1
               [] trend = "decreasing" -> 0 - 1
               [] OTHER -> 0
      From(recentMaxes) == Of(recentMaxes, detectTrend(recentMaxes))
  IN  IF Len(history) < 3 THEN 0 ELSE From(getRecentTestMaxes(history, 3))

\* _calculateProgressionRate(lastWeek, history), in hundredths
DupProgressionRate(lastWeek, history) ==
  clamp(5 + DupFeedbackAdjustment(lastWeek) + DupTrendAdjustment(history), 0, 15)

\* DUPAlgorithm.predictTestMax(weekNumber, history)
DupPredict(weekNumber, history) ==
  IF history = <<>> THEN 1
  ELSE LET lastMax == getLastTestMax(history)
           rate == DupProgressionRate(history[Len(history)], history)
       IN  Max(1, RoundDiv(lastMax * (100 + rate), 100))

\* DUPAlgorithm._generateDayPlan: the progression factor is
\* 1 + (weekNumber - 1) * 0.05 = (19 + weekNumber) / 20
DupDayPlan(weekNumber, testMax, profile) ==
  LET reps == clamp(RoundDiv(testMax * profile.repsRatio * (19 + weekNumber), 2000),
                    3, MaxReps(testMax))
      series == clamp(profile.seriesBase, 2, 10)
      rest == clamp(calculateRest(reps, profile.baseRest, profile.threshold,
                                  profile.addPer, profile.chunkSize), 20, 180)
  IN  [series |-> series, reps |-> reps, rest |-> rest]

\* a DUP generatePlan without its beginner mode
DupGeneratePlanUnguarded(weekNumber, testMax, isBigInt, history) ==
  IF isBigInt THEN Thrown
  ELSE Returned([i \in 1..6 |-> DupDayPlan(weekNumber, testMax, DAILY_ROTATION[i])])

\* DUPAlgorithm.generatePlan(weekNumber, testMax, history)
DupGeneratePlan(weekNumber, testMax, isBigInt, history) ==
  IF testMax < 5 THEN Returned(BeginnerDays)
  ELSE IF isBigInt THEN Thrown
  ELSE Returned([i \in 1..6 |-> DupDayPlan(weekNumber, testMax, DAILY_ROTATION[i])])

(* ------------------------------------------------------------------ *)
(* rir.js (src/unnamed/part_005, second file)                          *)
(* ------------------------------------------------------------------ *)
\* VOLUME_MULTIPLIERS: the first entry whose minRIR the value reaches
\* (rirMoyen >= minRIR); RIR and multiplier in tenths
VOLUME_MULTIPLIERS ==
  << [minRIR |-> 35, multiplier |-> 40, status |-> "under", baseRest |-> 45],
     [minRIR |-> 20, multiplier |-> 35, status |-> "optimal", baseRest |-> 60],
     [minRIR |-> 10, multiplier |-> 30, status |-> "moderate", baseRest |-> 70] >>

RIR_DELOAD == [multiplier |-> 20, status |-> "deload", baseRest |-> 90]

\* DAILY_DISTRIBUTION, in hundredths
RIR_DAILY_DISTRIBUTION == <<18, 17, 17, 17, 16, 15>>

\* _getWeekRIR(week), in tenths: the summary's rirMoyen; TARGET_RIR = 2
\* when there is no last week
getWeekRIR(history) == IF history = <<>> THEN 20 ELSE history[Len(history)].rirMoyen

\* _getVolumeMultiplier(rirMoyen)
getVolumeMultiplier(rirMoyen) ==
  IF \E i \in 1..Len(VOLUME_MULTIPLIERS) : rirMoyen >= VOLUME_MULTIPLIERS[i].minRIR
  THEN LET first == CHOOSE i \in 1..Len(VOLUME_MULTIPLIERS) :
                      /\ rirMoyen >= VOLUME_MULTIPLIERS[i].minRIR
                      /\ \A j \in 1..(i - 1) : rirMoyen < VOLUME_MULTIPLIERS[j].minRIR
       IN  [multiplier |-> VOLUME_MULTIPLIERS[first].multiplier,
            status |-> VOLUME_MULTIPLIERS[first].status,
            baseRest |-> VOLUME_MULTIPLIERS[first].baseRest]
  ELSE RIR_DELOAD

\* RIRAlgorithm.getPredictedWeeklyVolume(testMax, rirMoyen):
\* round(testMax * config.multiplier)
getPredictedWeeklyVolume(testMax, rirMoyen) ==
  RoundDiv(testMax * getVolumeMultiplier(rirMoyen).multiplier, 10)

\* RIRAlgorithm.predictTestMax: rate = clamp(0.03 + rir * 0.015, 0, 0.12),
\* here in ten-thousandths
RirPredict(weekNumber, history) ==
  IF history = <<>> THEN 1
  ELSE LET lastMax == getLastTestMax(history)
           clampedRate == clamp(300 + getWeekRIR(history) * 15, 0, 1200)
       IN  Max(1, RoundDiv(lastMax * (10000 + clampedRate), 10000))

\* _calculateTargetReps: ratio = 0.6 + rir * 0.05 = (120 + rirTenths) / 200
RirTargetReps(testMax, rirMoyen) ==
  clamp(RoundDiv(testMax * (120 + rirMoyen), 200), 3, MaxReps(testMax))

\* _generateDayPlan(dayVolume, repsCible, testMax, status) with
\* _calculateRIRBasedRest
RirDayPlan(dayVolume, repsCible, testMax, config) ==
  LET series == clamp(IF repsCible > 0 THEN RoundDiv(dayVolume, repsCible) ELSE 3, 2, 10)
      reps == clamp(repsCible, 3, MaxReps(testMax))
      rest == clamp(calculateRest(reps, config.baseRest, 15, 5, 5), 20, 180)
  IN  [series |-> series, reps |-> reps, rest |-> rest]

\* INTER_SESSION_ADJUSTMENTS, in hundredths (no entry: 0)
InterSessionMultiplier(feedback) ==
  CASE feedback = "facile" -> 110
    [] feedback = "parfait" -> 105
    [] OTHER -> 0

\* _applyInterSessionAdjustments(plan, lastWeek, testMax)
RirInterSessionAdjustments(plan, history, testMax) ==
  IF history = <<>> THEN plan
  ELSE LET multiplier == InterSessionMultiplier(history[Len(history)].lastFeedback)
       IN  IF multiplier = 0 THEN plan
           ELSE [i \in 1..Len(plan) |->
                   [plan[i] EXCEPT !.reps = clamp(RoundDiv(plan[i].reps * multiplier, 100),
                                                  3, MaxReps(testMax))]]

\* RIRAlgorithm.generatePlan(weekNumber, testMax, history).
\* _getLastSessionFeedback walks the last week's sessions from the end and
\* raises a TypeError on the null entry.
RirGeneratePlan(weekNumber, testMax, isBigInt, history) ==
  IF testMax < 5 THEN Returned(BeginnerDays)
  ELSE IF isBigInt THEN Thrown
  ELSE IF history # <<>> /\ history[Len(history)].corrupt THEN Thrown
  ELSE LET rirMoyen == getWeekRIR(history)
           config == getVolumeMultiplier(rirMoyen)
           repsCible == RirTargetReps(testMax, rirMoyen)
           DayVolume(i) == RoundDiv(testMax * config.multiplier * RIR_DAILY_DISTRIBUTION[i], 1000)
           plan == [i \in 1..6 |-> RirDayPlan(DayVolume(i), repsCible, testMax, config)]
       IN  Returned(RirInterSessionAdjustments(plan, history, testMax))

(* ------------------------------------------------------------------ *)
(* regression.js (src/js/algorithms/engine.js, second file) with       *)
(* fitLinear, fitPolynomial and evaluatePolynomial of utils/math.js.   *)
(* A real number is a fraction [n, d] with d > 0.                      *)
(* ------------------------------------------------------------------ *)
Frac(n, d) == IF d < 0 THEN [n |-> 0 - n, d |-> 0 - d] ELSE [n |-> n, d |-> d]

FracLess(a, b) == a.n * b.d < b.n * a.d

\* clamp on fractions: Math.max(min, Math.min(max, value))
FracClamp(value, min, max) ==
  LET low == IF FracLess(max, value) THEN max ELSE value
  IN  IF FracLess(low, min) THEN min ELSE low

\* _extractPoints(history): [weekNumber, testMax] of the weeks with a
\* positive test max (the weeks of a history are in increasing order)
RECURSIVE extractPoints(_)
extractPoints(history) ==
  IF history = <<>> THEN <<>>
  ELSE IF Head(history).testMax > 0
       THEN <<[x |-> Head(history).weekNumber, y |-> Head(history).testMax]>>
            \o extractPoints(Tail(history))
       ELSE extractPoints(Tail(history))

RECURSIVE PowerSum(_, _, _)
\* the sum of x^px * y^py over the points
PowerSum(points, px, py) ==
  IF points = <<>> THEN 0
  ELSE Pow(Head(points).x, px) * Pow(Head(points).y, py) + PowerSum(Tail(points), px, py)

\* determinant3x3(m)
determinant3x3(m) ==
    m[1][1] * (m[2][2] * m[3][3] - m[2][3] * m[3][2])
  - m[1][2] * (m[2][1] * m[3][3] - m[2][3] * m[3][1])
  + m[1][3] * (m[2][1] * m[3][2] - m[2][2] * m[3][1])

RECURSIVE ResidualSquares(_, _, _, _, _)
\* the sum of (y - predicted)^2 over the points, times D^2, for the
\* model (A x^2 + B x + C) / D
ResidualSquares(points, A, B, C, D) ==
  IF points = <<>> THEN 0
  ELSE Pow(Head(points).y * D - A * Head(points).x * Head(points).x - B * Head(points).x - C, 2)
       + ResidualSquares(Tail(points), A, B, C, D)

\* the model {a, b, c, stdError, type}; stdError2 is the square of
\* stdError (Math.sqrt is one to one on what it is given)
FitModel(a, b, c, stdError2, type) == [a |-> a, b |-> b, c |-> c, stdError2 |-> stdError2, type |-> type]

\* fitLinear without its test of the denominator
fitLinearUnguarded(points) ==
  LET n == Len(points)
      Zero == Frac(0, 1)
      Fitted(bn, cn, denom) ==
        FitModel(Zero, Frac(bn, denom), Frac(cn, n * denom),
                 Frac(ResidualSquares(points, 0, bn * n, cn, n * denom),
                      n * denom * n * denom * Max(1, n - 2)), "linear")
      Line(sumX, sumY, sumXY, denom) ==
        Fitted(n * sumXY - sumX * sumY,
               sumY * denom - (n * sumXY - sumX * sumY) * sumX, denom)
  IN  IF n = 0 THEN FitModel(Zero, Zero, Zero, Zero, "linear")
      ELSE IF n = 1 THEN FitModel(Zero, Zero, Frac(points[1].y, 1), Zero, "linear")
      ELSE Line(PowerSum(points, 1, 0), PowerSum(points, 0, 1), PowerSum(points, 1, 1),
                n * PowerSum(points, 2, 0) - PowerSum(points, 1, 0) * PowerSum(points, 1, 0))

\* fitLinear(points): b = (n sumXY - sumX sumY) / denom and
\* c = (sumY - b sumX) / n; the x and y are integers, so that
\* Math.abs(denom) < 1e-10 is denom = 0
fitLinear(points) ==
  LET n == Len(points)
      Zero == Frac(0, 1)
      Fitted(bn, cn, denom) ==
        FitModel(Zero, Frac(bn, denom), Frac(cn, n * denom),
                 Frac(ResidualSquares(points, 0, bn * n, cn, n * denom),
                      n * denom * n * denom * Max(1, n - 2)), "linear")
      Line(sumX, sumY, sumXY, denom) ==
        IF denom = 0 THEN FitModel(Zero, Zero, Frac(sumY, n), Zero, "linear")
        ELSE Fitted(n * sumXY - sumX * sumY,
                    sumY * denom - (n * sumXY - sumX * sumY) * sumX, denom)
  IN  IF n = 0 THEN FitModel(Zero, Zero, Zero, Zero, "linear")
      ELSE IF n = 1 THEN FitModel(Zero, Zero, Frac(points[1].y, 1), Zero, "linear")
      ELSE Line(PowerSum(points, 1, 0), PowerSum(points, 0, 1), PowerSum(points, 1, 1),
                n * PowerSum(points, 2, 0) - PowerSum(points, 1, 0) * PowerSum(points, 1, 0))

\* the matrix M of the normal equations in fitPolynomial
NormalMatrix(points) ==
  << <<PowerSum(points, 4, 0), PowerSum(points, 3, 0), PowerSum(points, 2, 0)>>,
     <<PowerSum(points, 3, 0), PowerSum(points, 2, 0), PowerSum(points, 1, 0)>>,
     <<PowerSum(points, 2, 0), PowerSum(points, 1, 0), Len(points)>> >>

\* the matrix M with its column k replaced by V = [sumX2Y, sumXY, sumY]
CramerMatrix(points, k) ==
  LET Replaced(M, V) == [i \in 1..3 |-> [j \in 1..3 |-> IF j = k THEN V[i] ELSE M[i][j]]]
  IN  Replaced(NormalMatrix(points),
               <<PowerSum(points, 2, 1), PowerSum(points, 1, 1), PowerSum(points, 0, 1)>>)

\* fitPolynomial without its test of the determinant
fitPolynomialNoFallback(points) ==
  LET n == Len(points)
      Fitted(det, detA, detB, detC) ==
        FitModel(Frac(detA, det), Frac(detB, det), Frac(detC, det),
                 Frac(ResidualSquares(points, detA, detB, detC, det),
                      det * det * Max(1, n - 3)), "polynomial")
  IN  IF n < 3 THEN fitLinear(points)
      ELSE Fitted(determinant3x3(NormalMatrix(points)),
                  determinant3x3(CramerMatrix(points, 1)),
                  determinant3x3(CramerMatrix(points, 2)),
                  determinant3x3(CramerMatrix(points, 3)))

\* fitPolynomial(points): Cramer's rule; on integers
\* Math.abs(det) < 1e-10 is det = 0
fitPolynomial(points) ==
  LET n == Len(points)
      Fitted(det, detA, detB, detC) ==
        IF det = 0 THEN fitLinear(points)
        ELSE FitModel(Frac(detA, det), Frac(detB, det), Frac(detC, det),
                      Frac(ResidualSquares(points, detA, detB, detC, det),
                           det * det * Max(1, n - 3)), "polynomial")
  IN  IF n < 3 THEN fitLinear(points)
      ELSE Fitted(determinant3x3(NormalMatrix(points)),
                  determinant3x3(CramerMatrix(points, 1)),
                  determinant3x3(CramerMatrix(points, 2)),
                  determinant3x3(CramerMatrix(points, 3)))

\* evaluatePolynomial(fitLinear(points), x): a straight line by least
\* squares; the mean of the y when the x do not differ
FitLinearAt(points, x) ==
  LET n == Len(points)
      Line(sumX, sumY, sumXY, sumX2) ==
        IF n * sumX2 - sumX * sumX = 0 THEN Frac(sumY, n)
        ELSE Frac((n * sumXY - sumX * sumY) * x * n + sumY * (n * sumX2 - sumX * sumX)
                  - (n * sumXY - sumX * sumY) * sumX,
                  n * (n * sumX2 - sumX * sumX))
  IN  IF n = 0 THEN Frac(0, 1)
      ELSE IF n = 1 THEN Frac(points[1].y, 1)
      ELSE Line(PowerSum(points, 1, 0), PowerSum(points, 0, 1), PowerSum(points, 1, 1),
                PowerSum(points, 2, 0))

\* evaluatePolynomial(fitPolynomial(points), x): a parabola by least
\* squares (Cramer's rule) from three points on, else fitLinear
FitPolynomialAt(points, x) ==
  LET n == Len(points)
      Parabola(det, detA, detB, detC) ==
        IF det = 0 THEN FitLinearAt(points, x)
        ELSE Frac(detA * x * x + detB * x + detC, det)
      Cramer(s1, s2, s3, s4, v1, v2, v3) ==
        Parabola(determinant3x3(<< <<s4, s3, s2>>, <<s3, s2, s1>>, <<s2, s1, n>> >>),
                 determinant3x3(<< <<v1, s3, s2>>, <<v2, s2, s1>>, <<v3, s1, n>> >>),
                 determinant3x3(<< <<s4, v1, s2>>, <<s3, v2, s1>>, <<s2, v3, n>> >>),
                 determinant3x3(<< <<s4, s3, v1>>, <<s3, s2, v2>>, <<s2, s1, v3>> >>))
  IN  IF n < 3 THEN FitLinearAt(points, x)
      ELSE Cramer(PowerSum(points, 1, 0), PowerSum(points, 2, 0), PowerSum(points, 3, 0),
                  PowerSum(points, 4, 0), PowerSum(points, 2, 1), PowerSum(points, 1, 1),
                  PowerSum(points, 0, 1))

\* _safeguardPrediction: clamp between lastMax * 0.5 and
\* lastMax * 1.30 ^ weeksDelta
safeguardPrediction(predicted, lastMax, weekNumber, points) ==
  LET weeksDelta == Max(1, weekNumber - points[Len(points)].x)
  IN  FracClamp(predicted, Frac(lastMax, 2),
                Frac(lastMax * Pow(13, weeksDelta), Pow(10, weeksDelta)))

\* RegressionAlgorithm.predictTestMax(weekNumber, history)
RegressionPredict(weekNumber, history) ==
  LET Rounded(safe) == Max(1, RoundDiv(safe.n, safe.d))
      From(points) ==
        IF points = <<>> THEN 1
        ELSE IF Len(points) = 1 THEN Max(1, RoundDiv(points[1].y * 11, 10))
        ELSE Rounded(safeguardPrediction(FitPolynomialAt(points, weekNumber),
                                         points[Len(points)].y, weekNumber, points))
  IN  From(extractPoints(history))

\* _getPreviousTestMax(history): the last positive test max before the
\* last week, else 10
getPreviousTestMax(history) ==
  IF Len(history) < 2 THEN 10
  ELSE getLastTestMax(SubSeq(history, 1, Len(history) - 1))

\* _calculateAdjustFactor(testMax, predictedNext, history), a fraction;
\* progressionRate(previous, current) = (current - previous) / previous
calculateAdjustFactor(testMax, predictedNext, history) ==
  LET Factor(tauReel, tauTheo) ==
        IF 1000 * Abs(tauTheo.n) < tauTheo.d
        THEN IF FracLess(Frac(5, 100), tauReel) THEN Frac(3, 2)
             ELSE IF FracLess(tauReel, Frac(0 - 5, 100)) THEN Frac(7, 10)
             ELSE Frac(1, 1)
        ELSE FracClamp(Frac(tauReel.n * tauTheo.d, tauReel.d * tauTheo.n),
                       Frac(1, 2), Frac(2, 1))
      From(previousMax) ==
        Factor(Frac(testMax - previousMax, previousMax),
               Frac(predictedNext - testMax, testMax))
  IN  IF Len(history) < 2 THEN Frac(1, 1) ELSE From(getPreviousTestMax(history))

\* _calculateFailureRate(history) from the feedback summaries, then
\* _getFailureAdjustment(failureRate).multiplier in hundredths
RECURSIVE FeedbackTotals(_)
FeedbackTotals(history) ==
  IF history = <<>> THEN [total |-> 0, impossible |-> 0]
  ELSE LET rest == FeedbackTotals(Tail(history))
           week == Head(history)
       IN  [total |-> rest.total + week.facile + week.parfait + week.impossible,
            impossible |-> rest.impossible + week.impossible]

FailureMultiplier(history) ==
  LET Of(t) == IF t.total = 0 THEN 100
               ELSE IF 100 * t.impossible > 30 * t.total THEN 70
               ELSE IF 100 * t.impossible > 15 * t.total THEN 85
               ELSE 100
  IN  Of(FeedbackTotals(history))

\* RegressionAlgorithm.generatePlan(weekNumber, testMax, history)
RegressionGeneratePlan(weekNumber, testMax, isBigInt, history) ==
  LET Days(seriesPerDay, repsBase) ==
        [i \in 1..6 |-> [series |-> seriesPerDay, reps |-> repsBase,
                         rest |-> clamp(calculateRest(repsBase, 60, 15, 3, 1), 20, 180)]]
      WithFactor(predictedNext, adjustFactor, repsBase) ==
        Days(clamp(RoundDiv(predictedNext * 3 * adjustFactor.n * FailureMultiplier(history),
                            adjustFactor.d * 100 * repsBase * 6), 2, 10), repsBase)
      From(predictedNext) ==
        WithFactor(predictedNext, calculateAdjustFactor(testMax, predictedNext, history),
                   clamp(RoundDiv(predictedNext * 7, 10), 3, MaxReps(testMax)))
  IN  IF testMax < 5 THEN Returned(BeginnerDays)
      ELSE IF isBigInt THEN Thrown
      ELSE Returned(From(IF history = <<>> THEN 1
                         ELSE RegressionPredict(weekNumber + 1, history)))

(* ------------------------------------------------------------------ *)
(* The strategies behind their common interface                        *)
(* ------------------------------------------------------------------ *)
Value(v) == [threw |-> FALSE, value |-> v]

\* algo.predictTestMax(weekNumber, history)
PredictTestMax(name, weekNumber, history) ==
  CASE name = "linear" -> Value(LinearPredict(weekNumber, history))
    [] name = "banister" -> BanisterPredict(weekNumber, history)
    [] name = "dup" -> Value(DupPredict(weekNumber, history))
    [] name = "rir" -> Value(RirPredict(weekNumber, history))
    [] name = "regression" -> Value(RegressionPredict(weekNumber, history))

\* algo.generatePlan(weekNumber, testMax, history)
GeneratePlan(name, weekNumber, testMax, isBigInt, history) ==
  CASE name = "linear" -> LinearGeneratePlan(weekNumber, testMax, isBigInt, history)
    [] name = "banister" -> BanisterGeneratePlan(weekNumber, testMax, isBigInt, history)
    [] name = "dup" -> DupGeneratePlan(weekNumber, testMax, isBigInt, history)
    [] name = "rir" -> RirGeneratePlan(weekNumber, testMax, isBigInt, history)
    [] name = "regression" -> RegressionGeneratePlan(weekNumber, testMax, isBigInt, history)

(* ------------------------------------------------------------------ *)
(* scoring.js (src/unnamed/part_005, first file).  Scores in tenths.   *)
(*                                                                     *)
(* An entry of the scoring history is the record State.setAlgorithm    *)
(* stores: weekNumber, actual (the test max of that week, 0: null) and *)
(* the prediction of every strategy (0: none or null), which the entry *)
(* holds both in `predictions` and in `calculations`.                  *)
(* ------------------------------------------------------------------ *)
NEUTRAL_SCORE == 500

NoPredictions == [a \in AlgorithmNames |-> 0]

ScoringHistories ==
  { <<>>,
    << [weekNumber |-> 2, actual |-> 12,
        prediction |-> [NoPredictions EXCEPT !["linear"] = 11, !["rir"] = 12]] >>,
    << [weekNumber |-> 2, actual |-> 10,
        prediction |-> [NoPredictions EXCEPT !["linear"] = 11, !["rir"] = 12]],
       [weekNumber |-> 3, actual |-> 0,
        prediction |-> [NoPredictions EXCEPT !["linear"] = 13, !["dup"] = 12, !["rir"] = 14]] >> }

\* _singlePrecisionScore(predicted, actual): 100 - |p - a| / a * 200
singlePrecisionScore(predicted, actual) ==
  IF actual <= 0 THEN NEUTRAL_SCORE
  ELSE clamp(RoundDiv(1000 * actual - 2000 * Abs(predicted - actual), actual), 0, 1000)

\* _collectPredictions(scoringHistory, algoName)
RECURSIVE collectPredictions(_, _)
collectPredictions(scoringHistory, algoName) ==
  IF scoringHistory = <<>> THEN <<>>
  ELSE LET entry == Head(scoringHistory)
           rest == collectPredictions(Tail(scoringHistory), algoName)
       IN  IF entry.prediction[algoName] > 0 /\ entry.actual > 0
           THEN <<[predicted |-> entry.prediction[algoName], actual |-> entry.actual,
                   week |-> entry.weekNumber]>> \o rest
           ELSE rest

\* _getCurrentWeekFromHistory(scoringHistory): the largest week, at least 1
getCurrentWeekFromHistory(scoringHistory) ==
  IF scoringHistory = <<>> THEN 1
  ELSE LET weeks == {scoringHistory[i].weekNumber : i \in 1..Len(scoringHistory)} \cup {1}
       IN  CHOOSE w \in weeks : \A v \in weeks : v <= w

\* _getCurrentPrediction(scoringHistory, algoName, currentWeek); 0 is null
getCurrentPrediction(scoringHistory, algoName, currentWeek) ==
  IF \E i \in 1..Len(scoringHistory) : scoringHistory[i].weekNumber = currentWeek
  THEN LET first == CHOOSE i \in 1..Len(scoringHistory) :
                      /\ scoringHistory[i].weekNumber = currentWeek
                      /\ \A j \in 1..(i - 1) : scoringHistory[j].weekNumber # currentWeek
       IN  scoringHistory[first].prediction[algoName]
  ELSE 0

\* the predictions calculatePrecisionScore weighs: the collected ones and
\* the current week's prediction against the actual test max
PrecisionSamples(scoringHistory, algoName, actualTestMax) ==
  LET With(collected, currentWeek, currentPrediction) ==
        IF actualTestMax > 0 /\ currentPrediction > 0
        THEN Append(collected, [predicted |-> currentPrediction, actual |-> actualTestMax,
                                week |-> currentWeek])
        ELSE collected
      From(currentWeek) ==
        With(collectPredictions(scoringHistory, algoName), currentWeek,
             getCurrentPrediction(scoringHistory, algoName, currentWeek))
  IN  From(getCurrentWeekFromHistory(scoringHistory))

\* calculatePrecisionScore(scoringHistory, algoName, actualTestMax): the
\* mean of the single scores weighted by 0.9 ^ |currentWeek - week|, the
\* weights written over the common denominator 10 ^ MaxDistance
calculatePrecisionScore(scoringHistory, algoName, actualTestMax) ==
  LET Weighted(samples, distance, maxDistance) ==
        LET Weight(i) == Pow(9, distance[i]) * Pow(10, maxDistance - distance[i])
        IN  clamp(RoundDiv(SeqSum([i \in 1..Len(samples) |->
                             singlePrecisionScore(samples[i].predicted, samples[i].actual)
                             * Weight(i)]),
                           SeqSum([i \in 1..Len(samples) |-> Weight(i)])), 0, 1000)
      WithDistances(samples, distance) ==
        Weighted(samples, distance,
                 CHOOSE d \in {distance[i] : i \in 1..Len(samples)} :
                   \A j \in 1..Len(samples) : distance[j] <= d)
      Of(samples) ==
        IF samples = <<>> THEN NEUTRAL_SCORE
        ELSE WithDistances(samples,
               [i \in 1..Len(samples) |-> Abs(samples[Len(samples)].week - samples[i].week)])
  IN  Of(PrecisionSamples(scoringHistory, algoName, actualTestMax))

\* _singleFeedbackScore(feedbackSummary): parfait / total * 100
\* - impossible / total * 150; only called with total > 0
singleFeedbackScore(week) ==
  clamp(RoundDiv(1000 * week.parfait - 1500 * week.impossible,
                 week.facile + week.parfait + week.impossible), 0, 1000)

\* a calculateFeedbackScore that averages the weeks of every strategy
calculateFeedbackScoreOfAllWeeks(history, algoName) ==
  LET Of(scored) ==
        IF scored = <<>> THEN NEUTRAL_SCORE
        ELSE clamp(RoundDiv(SeqSum([i \in 1..Len(scored) |-> singleFeedbackScore(scored[i])]),
                            Len(scored)), 0, 1000)
  IN  Of(SelectSeq(history, LAMBDA week : week.facile + week.parfait + week.impossible > 0))

\* calculateFeedbackScore(history, algoName)
calculateFeedbackScore(history, algoName) ==
  LET Of(scored) ==
        IF scored = <<>> THEN NEUTRAL_SCORE
        ELSE clamp(RoundDiv(SeqSum([i \in 1..Len(scored) |-> singleFeedbackScore(scored[i])]),
                            Len(scored)), 0, 1000)
  IN  Of(SelectSeq(history, LAMBDA week :
           /\ week.selectedAlgorithm = algoName
           /\ week.facile + week.parfait + week.impossible > 0))

\* _scoreTrendIncreasing(maxes): 80 + (last - first) / first / length * 200
scoreTrendIncreasing(maxes) ==
  LET first == maxes[1]
      last == maxes[Len(maxes)]
  IN  clamp(RoundDiv(800 * first * Len(maxes) + 2000 * (last - first), first * Len(maxes)),
            800, 1000)

\* _scoreTrendDecreasing(maxes): 20 - (first - last) / first / length * 100
scoreTrendDecreasing(maxes) ==
  LET first == maxes[1]
      last == maxes[Len(maxes)]
  IN  clamp(RoundDiv(200 * first * Len(maxes) - 1000 * (first - last), first * Len(maxes)),
            0, 200)

\* calculateTrendScore(history)
calculateTrendScore(history) ==
  LET Of(recentMaxes, trend) ==
        IF Len(recentMaxes) < 2 THEN NEUTRAL_SCORE
        ELSE CASE trend = "increasing" -> scoreTrendIncreasing(recentMaxes)
               [] trend = "stagnant" -> 400
               [] trend = "decreasing" -> scoreTrendDecreasing(recentMaxes)
               [] OTHER -> NEUTRAL_SCORE
      From(recentMaxes) == Of(recentMaxes, detectTrend(recentMaxes))
  IN  IF Len(history) < 2 THEN NEUTRAL_SCORE ELSE From(getRecentTestMaxes(history, 3))

\* a calculateCompositeScore that adds the three scores without their
\* weights and without the final clamp
calculateCompositeScoreUnweighted(precision, feedback, trend) ==
  precision + feedback + trend

\* calculateCompositeScore: 0.50 precision + 0.30 feedback + 0.20 trend
calculateCompositeScore(precision, feedback, trend) ==
  clamp(RoundDiv(5 * precision + 3 * feedback + 2 * trend, 10), 0, 1000)

\* scoreAllAlgorithms(weekHistory, scoringHistory, predictions,
\* actualTestMax, eligibleAlgorithms): one score record per eligible
\* strategy, keyed by its position in the eligible list
scoreAllAlgorithms(weekHistory, scoringHistory, predictions, actualTestMax, eligible) ==
  LET Score(name, precisionScore, feedbackScore, trendScore) ==
        [name |-> name, prediction |-> predictions[name],
         scorePrecision |-> precisionScore, scoreFeedback |-> feedbackScore,
         scoreTendance |-> trendScore,
         composite |-> calculateCompositeScore(precisionScore, feedbackScore, trendScore)]
      All(trendScore) ==
        [i \in 1..Len(eligible) |->
           Score(eligible[i],
                 calculatePrecisionScore(scoringHistory, eligible[i], actualTestMax),
                 calculateFeedbackScore(weekHistory, eligible[i]), trendScore)]
  IN  All(calculateTrendScore(weekHistory))

\* a selectBestAlgorithm whose sort puts the last of equal composites first
ScorerSelectLast(scores) ==
  IF scores = <<>> THEN "linear"
  ELSE LET best == CHOOSE i \in 1..Len(scores) :
                     /\ \A j \in 1..Len(scores) : scores[j].composite <= scores[i].composite
                     /\ \A j \in (i + 1)..Len(scores) : scores[j].composite < scores[i].composite
       IN  scores[best].name

\* AlgorithmScorer.selectBestAlgorithm(scores): the entries sorted by
\* decreasing composite with a stable sort, the first one taken
ScorerSelectBest(scores) ==
  IF scores = <<>> THEN "linear"
  ELSE LET best == CHOOSE i \in 1..Len(scores) :
                     /\ \A j \in 1..Len(scores) : scores[j].composite <= scores[i].composite
                     /\ \A j \in 1..(i - 1) : scores[j].composite < scores[i].composite
       IN  scores[best].name

(* ------------------------------------------------------------------ *)
(* engine.js: AlgorithmEngine                                          *)
(*                                                                     *)
(* The engine's state is _initialized and the map _algorithms, here    *)
(* the sequence of the registered names.  Each operation is given the  *)
(* map it runs on.  Besides the fields of the value the code returns,  *)
(* a result records what the call did: the strategies whose predictor  *)
(* and plan generator ran, whether the scorer ran, the plan as the     *)
(* strategy produced it (rawPlan) and whether the Linear fallback ran. *)
(* ------------------------------------------------------------------ *)
Registered(algos, name) == \E i \in 1..Len(algos) : algos[i] = name

\* a getAllPredictions that leaves out the strategies whose predictor throws
getAllPredictionsSkipping(algos, weekNumber, history) ==
  LET Of(eligible) ==
        [name \in {eligible[i] : i \in {j \in 1..Len(eligible) :
                      /\ Registered(algos, eligible[j])
                      /\ ~PredictTestMax(eligible[j], weekNumber, history).threw}}
           |-> Max(1, PredictTestMax(name, weekNumber, history).value)]
  IN  Of(getEligibleAlgorithms(weekNumber))

\* getAllPredictions(weekNumber, history): the rounded prediction of every
\* eligible registered strategy, at least 1; 0 stands for null, recorded
\* when predictTestMax throws
getAllPredictions(algos, weekNumber, history) ==
  LET Rounded(predicted) == IF predicted.threw THEN 0 ELSE Max(1, predicted.value)
      Of(eligible) ==
        [name \in {eligible[i] : i \in {j \in 1..Len(eligible) : Registered(algos, eligible[j])}}
           |-> Rounded(PredictTestMax(name, weekNumber, history))]
  IN  Of(getEligibleAlgorithms(weekNumber))

\* predictions[algoName] ?? null
PredictionOf(predictions, name) ==
  IF name \in DOMAIN predictions THEN predictions[name] ELSE 0

\* the eligible strategies whose predictTestMax raised an exception
ThrowingPredictors(called, weekNumber, history) ==
  {name \in called : PredictTestMax(name, weekNumber, history).threw}

\* with a BigInt test max calculatePrecisionScore raises a TypeError in
\* Math.abs(predicted - actual) as soon as a strategy has a prediction for
\* the current week of the scoring history
ScorerThrows(scoringHistory, isBigInt, eligible) ==
  /\ isBigInt
  /\ \E i \in 1..Len(eligible) :
       getCurrentPrediction(scoringHistory, eligible[i],
                            getCurrentWeekFromHistory(scoringHistory)) > 0

\* a selectBestAlgorithm that takes the first-week branch only when the
\* week is the first and the history is empty
EngineSelectBestBoth(algos, weekNumber, testMax, isBigInt, weekHistory, scoringHistory) ==
  LET Selected(predictions, scores, scorerThrew) ==
        [threw |-> scorerThrew,
         algorithm |-> IF scorerThrew THEN "" ELSE ScorerSelectBest(scores),
         hasScores |-> ~scorerThrew,
         scores |-> IF scorerThrew THEN <<>> ELSE scores,
         predictions |-> predictions, predictCalls |-> DOMAIN predictions,
         predictThrew |-> ThrowingPredictors(DOMAIN predictions, weekNumber, weekHistory),
         scorerCalled |-> TRUE]
      Scored(eligible, predictions) ==
        Selected(predictions,
                 scoreAllAlgorithms(weekHistory, scoringHistory,
                   [name \in AlgorithmNames |-> PredictionOf(predictions, name)],
                   testMax, eligible),
                 ScorerThrows(scoringHistory, isBigInt, eligible))
  IN  IF weekNumber <= 1 /\ weekHistory = <<>>
      THEN [threw |-> FALSE, algorithm |-> "linear", hasScores |-> FALSE, scores |-> <<>>,
            predictions |-> <<>>, predictCalls |-> {}, predictThrew |-> {},
            scorerCalled |-> FALSE]
      ELSE Scored(getEligibleAlgorithms(weekNumber),
                  getAllPredictions(algos, weekNumber, weekHistory))

\* AlgorithmEngine.selectBestAlgorithm(weekNumber, testMax, weekHistory,
\* scoringHistory)
EngineSelectBest(algos, weekNumber, testMax, isBigInt, weekHistory, scoringHistory) ==
  LET Selected(predictions, scores, scorerThrew) ==
        [threw |-> scorerThrew,
         algorithm |-> IF scorerThrew THEN "" ELSE ScorerSelectBest(scores),
         hasScores |-> ~scorerThrew,
         scores |-> IF scorerThrew THEN <<>> ELSE scores,
         predictions |-> predictions, predictCalls |-> DOMAIN predictions,
         predictThrew |-> ThrowingPredictors(DOMAIN predictions, weekNumber, weekHistory),
         scorerCalled |-> TRUE]
      Scored(eligible, predictions) ==
        Selected(predictions,
                 scoreAllAlgorithms(weekHistory, scoringHistory,
                   [name \in AlgorithmNames |-> PredictionOf(predictions, name)],
                   testMax, eligible),
                 ScorerThrows(scoringHistory, isBigInt, eligible))
  IN  IF weekNumber <= 1 \/ weekHistory = <<>>
      THEN [threw |-> FALSE, algorithm |-> "linear", hasScores |-> FALSE, scores |-> <<>>,
            predictions |-> <<>>, predictCalls |-> {}, predictThrew |-> {},
            scorerCalled |-> FALSE]
      ELSE Scored(getEligibleAlgorithms(weekNumber),
                  getAllPredictions(algos, weekNumber, weekHistory))

\* a _generateRawPlan that calls the strategy outside of any try block
generateRawPlanUnguarded(algos, algorithmName, weekNumber, testMax, isBigInt, history) ==
  LET Own(own) ==
        [threw |-> own.threw, plan |-> own.plan, fallback |-> FALSE,
         ownThrew |-> own.threw, generateCalls |-> <<algorithmName>>]
      Linear(linear) ==
        [threw |-> linear.threw, plan |-> linear.plan, fallback |-> TRUE,
         ownThrew |-> FALSE, generateCalls |-> <<"linear">>]
  IN  IF ~Registered(algos, algorithmName)
      THEN Linear(LinearGeneratePlan(weekNumber, testMax, isBigInt, history))
      ELSE Own(GeneratePlan(algorithmName, weekNumber, testMax, isBigInt, history))

\* _generateRawPlan(algorithmName, weekNumber, testMax, history): the
\* strategy's plan; Linear's when the strategy is unknown or throws.  The
\* Linear call of the fallback is not guarded: its exception (and the
\* TypeError of calling generatePlan on a missing "linear") propagates.
generateRawPlan(algos, algorithmName, weekNumber, testMax, isBigInt, history) ==
  LET Fallback(linear, ownThrew, calls) ==
        [threw |-> linear.threw, plan |-> linear.plan, fallback |-> TRUE,
         ownThrew |-> ownThrew, generateCalls |-> calls]
      LinearPlan == IF Registered(algos, "linear")
                    THEN LinearGeneratePlan(weekNumber, testMax, isBigInt, history)
                    ELSE Thrown
      Guarded(own) ==
        IF ~own.threw
        THEN [threw |-> FALSE, plan |-> own.plan, fallback |-> FALSE,
              ownThrew |-> FALSE, generateCalls |-> <<algorithmName>>]
        ELSE Fallback(LinearPlan, TRUE, <<algorithmName, "linear">>)
  IN  IF ~Registered(algos, algorithmName)
      THEN Fallback(LinearPlan, FALSE, <<"linear">>)
      ELSE Guarded(GeneratePlan(algorithmName, weekNumber, testMax, isBigInt, history))

\* an _applyImpossibleRule whose loop stops one day early
applyImpossibleRuleDroppingLast(plan) ==
  [i \in 1..(Len(plan) - 1) |->
     [series |-> plan[i].series * SERIES_MULTIPLIER,
      reps |-> CeilDiv(plan[i].reps, REPS_DIVISOR),
      rest |-> Max(IMPOSSIBLE_REST_FLOOR, plan[i].rest - REST_REDUCTION)]]

\* _applyImpossibleRule(plan)
applyImpossibleRule(plan) ==
  [i \in 1..Len(plan) |->
     [series |-> plan[i].series * SERIES_MULTIPLIER,
      reps |-> CeilDiv(plan[i].reps, REPS_DIVISOR),
      rest |-> Max(IMPOSSIBLE_REST_FLOOR, plan[i].rest - REST_REDUCTION)]]

\* a generateWeekPlan that returns the corrected plan without bounding it
applySafetyBoundsSkipped(plan, testMax) == plan

\* _applySafetyBounds(plan, testMax)
applySafetyBounds(plan, testMax) ==
  [i \in 1..Len(plan) |->
     [series |-> clamp(plan[i].series, SERIES_MIN, SERIES_MAX),
      reps |-> clamp(plan[i].reps, REPS_MIN, MaxReps(testMax)),
      rest |-> clamp(plan[i].rest, REST_MIN, REST_MAX)]]

\* a beginner plan that stops at day 6
generateBeginnerPlanShort == [d \in 1..5 |-> BEGINNER_PLAN]

\* _generateBeginnerPlan()
generateBeginnerPlan == [d \in 1..6 |-> BEGINNER_PLAN]

\* a generateWeekPlan that bounds the raw plan first and corrects it last
BoundThenCorrect(rawPlan, testMax, hasImpossible) ==
  IF hasImpossible THEN applyImpossibleRule(applySafetyBounds(rawPlan, testMax))
  ELSE applySafetyBounds(rawPlan, testMax)

\* the raw plan corrected when the flag is set, then bounded:
\* generateWeekPlan after _generateRawPlan
CorrectAndBound(rawPlan, testMax, hasImpossible) ==
  applySafetyBounds(IF hasImpossible THEN applyImpossibleRule(rawPlan) ELSE rawPlan, testMax)

\* generateWeekPlan(algorithmName, weekNumber, testMax, history, hasImpossible)
generateWeekPlan(algos, algorithmName, weekNumber, testMax, isBigInt, history, hasImpossible) ==
  LET Finished(raw) ==
        [threw |-> raw.threw,
         plan |-> IF raw.threw THEN <<>>
                  ELSE CorrectAndBound(raw.plan, testMax, hasImpossible),
         rawPlan |-> raw.plan, fallback |-> raw.fallback, ownThrew |-> raw.ownThrew,
         generateCalls |-> raw.generateCalls]
  IN  IF testMax < BEGINNER_THRESHOLD
      THEN [threw |-> FALSE, plan |-> generateBeginnerPlan, rawPlan |-> <<>>,
            fallback |-> FALSE, ownThrew |-> FALSE, generateCalls |-> <<>>]
      ELSE Finished(generateRawPlan(algos, algorithmName, weekNumber, testMax, isBigInt,
                                    history))

\* what a call that raised an exception leaves, with the record of what
\* it did before
Failure(predictCalls, predictThrew, scorerCalled, generateCalls, ownThrew) ==
  [threw |-> TRUE, algorithm |-> "", isBeginnerMode |-> FALSE, hasScores |-> FALSE,
   scores |-> <<>>, predictions |-> <<>>, plan |-> <<>>,
   predictCalls |-> predictCalls, predictThrew |-> predictThrew,
   scorerCalled |-> scorerCalled, generateCalls |-> generateCalls, rawPlan |-> <<>>,
   fallback |-> FALSE, ownThrew |-> ownThrew]

\* processNewWeek(weekNumber, testMax, weekHistory, scoringHistory,
\* hasImpossibleLastWeek) on an initialized engine
processNewWeek(algos, weekNumber, testMax, isBigInt, weekHistory, scoringHistory, hasImpossibleLastWeek) ==
  LET Result(selection, week) ==
        IF week.threw
        THEN Failure(selection.predictCalls, selection.predictThrew,
                     selection.scorerCalled, week.generateCalls, week.ownThrew)
        ELSE [threw |-> FALSE, algorithm |-> selection.algorithm, isBeginnerMode |-> FALSE,
              hasScores |-> selection.hasScores, scores |-> selection.scores,
              predictions |-> selection.predictions, plan |-> week.plan,
              predictCalls |-> selection.predictCalls,
              predictThrew |-> selection.predictThrew,
              scorerCalled |-> selection.scorerCalled,
              generateCalls |-> week.generateCalls, rawPlan |-> week.rawPlan,
              fallback |-> week.fallback, ownThrew |-> week.ownThrew]
      Planned(selection) ==
        IF selection.threw
        THEN Failure(selection.predictCalls, selection.predictThrew, TRUE, <<>>, FALSE)
        ELSE Result(selection,
                    generateWeekPlan(algos, selection.algorithm, weekNumber, testMax,
                                     isBigInt, weekHistory, hasImpossibleLastWeek))
  IN  IF testMax < BEGINNER_THRESHOLD
      THEN IF ~Registered(algos, "linear") THEN Failure({}, {}, FALSE, <<>>, FALSE)
           ELSE [threw |-> FALSE, algorithm |-> "linear", isBeginnerMode |-> TRUE,
                 hasScores |-> FALSE, scores |-> <<>>, predictions |-> <<>>,
                 plan |-> generateBeginnerPlan,
                 predictCalls |-> {}, predictThrew |-> {}, scorerCalled |-> FALSE,
                 generateCalls |-> <<>>, rawPlan |-> <<>>, fallback |-> FALSE,
                 ownThrew |-> FALSE]
      ELSE Planned(EngineSelectBest(algos, weekNumber, testMax, isBigInt, weekHistory,
                                    scoringHistory))

\* simulateHistoricalScoring(weekHistory, scoringHistory): for every week
\* after the first, the strategy the scores of the earlier weeks select
simulateHistoricalScoring(algos, weekHistory, scoringHistory) ==
  LET Entry(week, predictions, scores) ==
        [week |-> week.weekNumber, predictions |-> predictions,
         selected |-> ScorerSelectBest(scores), actual |-> week.testMax]
      Scored(week, previousHistory, predictions) ==
        Entry(week, predictions,
              scoreAllAlgorithms(previousHistory,
                SelectSeq(scoringHistory, LAMBDA e : e.weekNumber < week.weekNumber),
                [name \in AlgorithmNames |-> PredictionOf(predictions, name)],
                week.testMax, getEligibleAlgorithms(week.weekNumber)))
      Week(week, previousHistory) ==
        Scored(week, previousHistory,
               getAllPredictions(algos, week.weekNumber, previousHistory))
  IN  IF Len(weekHistory) < 2 THEN <<>>
      ELSE [k \in 1..(Len(weekHistory) - 1) |->
              Week(weekHistory[k + 1], SubSeq(weekHistory, 1, k))]

(* ------------------------------------------------------------------ *)
(* The engine as a state machine                                       *)
(* ------------------------------------------------------------------ *)
VARIABLES
  \* the session screen singleton (screens/session.js) with the click
  \* listeners, rest timers and timeouts it has created; the last operation
  sessionScreen, sessionCall

VARIABLES
  \* the router (app.js): route shown, navigation in progress, last call
  currentRoute, currentScreen, navigating, navigation, routerCall

VARIABLES
  initialized,   \* AlgorithmEngine._initialized
  algorithms,    \* the keys of AlgorithmEngine._algorithms, in insertion order
  pc,            \* "idle", or "returned" when a call has just returned
  call,          \* the operation called last, its arguments and, for
                 \* processNewWeek, _initialized as the call found it
  result         \* what it returned

\* the State singleton over its Database (state.js)
VARIABLES
  profile,              \* State._cache.profile, as the 'profile' record of the database
  dbWeeks,              \* the object store 'weeks', by week number
  cacheCurrentWeek,     \* State._cache.currentWeek
  cacheWeeks,           \* State._cache.weeks
  dbSessions,           \* the object store 'sessions', by week and day
  cacheSessions,        \* State._cache.sessions
  dbScoring,            \* the object store 'algorithm_history', by week number
  cacheScoringHistory,  \* State._cache.scoringHistory
  storeCall,            \* the State operation called last and its arguments
  storeWrites           \* how many records the operations called have written

\* the subscribers of one topic of State and the deliveries queued for them
VARIABLES
  subscribers,   \* State._subscribers.get(topic), in insertion order
  microtasks,    \* the deliveries notify() has queued, each with its copy of the subscribers
  delivery,      \* the delivery that is running or ran last: its callbacks and how far forEach is
  invocation,    \* the callback invoked last, and whether its unsubscribe had returned by then
  unsubscribed   \* the callbacks whose unsubscribe function has returned since they subscribed

\* one RestTimer and the animation frame it has requested (utils/timer.js)
VARIABLES
  timerState,       \* RestTimer._state
  timerDuration,    \* RestTimer._duration, in seconds
  timerRemaining,   \* the seconds getRemaining() gives: _duration less the time run
  rafPending,       \* an animation frame requested by _scheduleNextTick is pending
  timerCallbacks,   \* _onTick, _onWarning and _onComplete are set: destroy() nulls them
  warningFired,     \* RestTimer._warningFired
  timerCall,        \* the operation that ran last, the state it found and the callbacks it invoked
  completions,      \* the calls of onComplete since the timer was armed by start() or reset()
  sinceStart        \* the calls of onComplete since the timer was armed by start(), up to 2

engineVars == <<initialized, algorithms, pc, call, result>>

timerVars == <<timerState, timerDuration, timerRemaining, rafPending, timerCallbacks, warningFired, timerCall, completions, sinceStart>>

pubsubVars == <<subscribers, microtasks, delivery, invocation, unsubscribed>>

sessionVars == <<sessionScreen, sessionCall>>

routerVars == <<currentRoute, currentScreen, navigating, navigation, routerCall>>

storeVars == <<profile, dbWeeks, cacheCurrentWeek, cacheWeeks, dbSessions, cacheSessions, dbScoring, cacheScoringHistory, storeCall, storeWrites>>

\* everything the engine does not own
outsideEngine == <<storeVars, pubsubVars, timerVars, sessionVars, routerVars>>

\* everything the store does not own
outsideStore == <<engineVars, pubsubVars, timerVars, sessionVars, routerVars>>

\* everything the subscriptions do not touch
outsidePubSub == <<engineVars, storeVars, timerVars, sessionVars, routerVars>>

\* everything the timer does not touch
outsideTimer == <<engineVars, storeVars, pubsubVars, sessionVars, routerVars>>

\* what the session screen leaves alone
outsideSession == <<engineVars, storeVars, pubsubVars, timerVars, routerVars>>

\* what the router leaves alone
outsideRouter == <<engineVars, storeVars, pubsubVars, timerVars, sessionVars>>

vars == <<engineVars, storeVars, pubsubVars, timerVars, sessionVars, routerVars>>

\* the weeks the store is followed over
MaxStoreWeek == 2

\* the calls of saveTestMax, saveSession, setAlgorithm and saveWeekPlan the
\* store is followed over
MaxStoreWrites == 3

StoreWeeks == 1..MaxStoreWeek

\* the days of a week, day 1 being the day of the capacity test
WeekDays == 1..7

\* no profile record: _cache.profile is null
NoProfile == [exists |-> FALSE, currentWeek |-> 0, currentDay |-> 0, selectedAlgorithm |-> "null"]

\* no record under a key: get() gives undefined, which the wrappers turn
\* into null
NoWeek == [weekNumber |-> 0]

NoSession == [dayNumber |-> 0]

NoEntry == [weekNumber |-> 0]

\* the longest rest the timer is given, in seconds
MaxDuration == 6

\* new RestTimer({duration, onTick, onWarning, onComplete})
TimerInit ==
  /\ timerState = "idle"
  /\ timerDuration = MaxDuration
  /\ timerRemaining = MaxDuration
  /\ rafPending = FALSE
  /\ timerCallbacks = TRUE
  /\ warningFired = FALSE
  /\ timerCall = [op |-> "none"]
  /\ completions = 0
  /\ sinceStart = 0

\* how many times the router renders the session screen
MaxSessions == 2

\* clicks are followed while at most this many click listeners are attached
MaxListeners == 4

\* SessionScreen._timer = null
NoTimer == 0

\* The SessionScreen object literal before its first render()
SessionInit ==
  /\ sessionScreen = [state |-> "ready", currentSeries |-> 1, seriesDetail |-> <<>>,
                container |-> FALSE, plan |-> 0, timer |-> NoTimer,
                timers |-> <<>>, timeouts |-> <<>>, listeners |-> 0,
                html |-> "none", sessions |-> 0, log |-> <<>>]
  /\ sessionCall = [op |-> "none"]

\* no navigation is running
NoNavigation == [route |-> "none", step |-> "none"]

\* App constructor: no route, no screen, not navigating
RouterInit ==
  /\ currentRoute = "none"
  /\ currentScreen = "none"
  /\ navigating = FALSE
  /\ navigation = NoNavigation
  /\ routerCall = [op |-> "none"]

\* no delivery has run
NoDelivery == [callbacks |-> <<>>, next |-> 1, running |-> FALSE]

NoInvocation == [callback |-> "none"]

\* State after construction: no subscriber, nothing queued
PubSubInit ==
  /\ subscribers = <<>>
  /\ microtasks = <<>>
  /\ delivery = NoDelivery
  /\ invocation = NoInvocation
  /\ unsubscribed = {}

\* the State singleton after init() on an empty database
StoreInit ==
  /\ profile = NoProfile
  /\ dbWeeks = [w \in StoreWeeks |-> NoWeek]
  /\ cacheCurrentWeek = NoWeek
  /\ cacheWeeks = <<>>
  /\ dbSessions = [w \in StoreWeeks |-> [d \in WeekDays |-> NoSession]]
  /\ cacheSessions = <<>>
  /\ dbScoring = [w \in StoreWeeks |-> NoEntry]
  /\ cacheScoringHistory = <<>>
  /\ storeCall = [op |-> "none"]
  /\ storeWrites = 0


NoCall == [op |-> "none"]

NoResult == [threw |-> FALSE]

\* constructor(): an empty map, not initialized
Init ==
  /\ initialized = FALSE
  /\ algorithms = <<>>
  /\ pc = "idle"
  /\ call = NoCall
  /\ result = NoResult
  /\ StoreInit
  /\ PubSubInit
  /\ TimerInit
  /\ SessionInit
  /\ RouterInit

\* the map after initialize(): the five strategies in the order of their
\* registration; nothing changes when the engine is initialized already
RegisterAll(isInitialized, algos) == IF isInitialized THEN algos ELSE AlgorithmOrder

\* an _ensureInitialized that does nothing
ensureInitializedSkipped(isInitialized, algos) == algos

\* the map after _ensureInitialized()
ensureInitialized(isInitialized, algos) ==
  IF ~isInitialized THEN RegisterAll(isInitialized, algos) ELSE algos

\* initialize()
Initialize ==
  /\ pc = "idle"
  /\ UNCHANGED outsideEngine
  /\ algorithms' = RegisterAll(initialized, algorithms)
  /\ initialized' = TRUE
  /\ pc' = "returned"
  /\ call' = [op |-> "initialize"]
  /\ result' = NoResult

\* processNewWeek(...) with the test max drawn from `testMaxes` and typed
\* as a number or, where `bigInts` allows, as a BigInt
ProcessNewWeekOn(testMaxes, bigInts) ==
  /\ pc = "idle"
  /\ UNCHANGED outsideEngine
  /\ \E weekNumber \in WeekNumbers, testMax \in testMaxes, isBigInt \in bigInts,
        history \in Histories, scoringHistory \in ScoringHistories, impossible \in BOOLEAN :
       /\ call' = [op |-> "processNewWeek", weekNumber |-> weekNumber, testMax |-> testMax,
                   isBigInt |-> isBigInt, history |-> history,
                   scoringHistory |-> scoringHistory, impossible |-> impossible,
                   wasInitialized |-> initialized]
       /\ algorithms' = ensureInitialized(initialized, algorithms)
       /\ result' = processNewWeek(algorithms', weekNumber, testMax, isBigInt, history,
                                   scoringHistory, impossible)
  /\ initialized' = TRUE
  /\ pc' = "returned"

\* processNewWeek called with numbers, as the test-max screen does
ProcessNewWeek == ProcessNewWeekOn(TestMaxValues, {FALSE})

\* processNewWeek called with a BigInt as test max
ProcessNewWeekBigInt == ProcessNewWeekOn(BigIntTestMaxValues, {TRUE})

\* getAllPredictions(weekNumber, history), called by the test-max screen
GetAllPredictions ==
  /\ pc = "idle"
  /\ UNCHANGED outsideEngine
  /\ \E weekNumber \in WeekNumbers, history \in Histories :
       /\ call' = [op |-> "getAllPredictions", weekNumber |-> weekNumber, history |-> history]
       /\ algorithms' = ensureInitialized(initialized, algorithms)
       /\ result' = [threw |-> FALSE,
                     predictions |-> getAllPredictions(algorithms', weekNumber, history)]
  /\ initialized' = TRUE
  /\ pc' = "returned"

\* simulateHistoricalScoring(weekHistory, scoringHistory)
SimulateHistoricalScoring ==
  /\ pc = "idle"
  /\ UNCHANGED outsideEngine
  /\ \E history \in Histories, scoringHistory \in ScoringHistories :
       /\ call' = [op |-> "simulateHistoricalScoring", history |-> history,
                   scoringHistory |-> scoringHistory]
       /\ algorithms' = ensureInitialized(initialized, algorithms)
       /\ result' = [threw |-> FALSE,
                     weeks |-> simulateHistoricalScoring(algorithms', history, scoringHistory)]
  /\ initialized' = TRUE
  /\ pc' = "returned"

\* getEligibleAlgorithms(weekNumber): reads ELIGIBILITY_MAP only
GetEligibleAlgorithms ==
  /\ pc = "idle"
  /\ UNCHANGED outsideEngine
  /\ \E weekNumber \in EligibilityWeeks :
       /\ call' = [op |-> "getEligibleAlgorithms", weekNumber |-> weekNumber]
       /\ result' = [threw |-> FALSE, eligible |-> getEligibleAlgorithms(weekNumber)]
  /\ pc' = "returned"
  /\ UNCHANGED <<initialized, algorithms>>

\* distributeVolume(totalVolume, ratios) of the numeric toolkit
DistributeVolume ==
  /\ pc = "idle"
  /\ UNCHANGED outsideEngine
  /\ \E totalTenths \in VolumeTotals, ratios \in RatioLists :
       /\ call' = [op |-> "distributeVolume", totalTenths |-> totalTenths, ratios |-> ratios]
       /\ result' = [threw |-> FALSE, shares |-> distributeVolumeTenths(totalTenths, ratios)]
  /\ pc' = "returned"
  /\ UNCHANGED <<initialized, algorithms>>

\* AlgorithmScorer.calculateTrendScore(history)
CalculateTrendScore ==
  /\ pc = "idle"
  /\ UNCHANGED outsideEngine
  /\ \E maxes \in TrendSeries :
       /\ call' = [op |-> "calculateTrendScore", maxes |-> maxes]
       /\ result' = [threw |-> FALSE,
                     score |-> calculateTrendScore([i \in 1..Len(maxes) |-> [testMax |-> maxes[i]]])]
  /\ pc' = "returned"
  /\ UNCHANGED <<initialized, algorithms>>

\* RIRAlgorithm.getPredictedWeeklyVolume(testMax, rirMoyen); the result
\* keeps the multiplier of the configuration the operation picked
GetPredictedWeeklyVolume ==
  /\ pc = "idle"
  /\ UNCHANGED outsideEngine
  /\ \E testMax \in TestMaxValues, rirMoyen \in RirAverages :
       /\ call' = [op |-> "getPredictedWeeklyVolume", testMax |-> testMax, rirMoyen |-> rirMoyen]
       /\ result' = [threw |-> FALSE,
                     multiplier |-> getVolumeMultiplier(rirMoyen).multiplier,
                     volume |-> getPredictedWeeklyVolume(testMax, rirMoyen)]
  /\ pc' = "returned"
  /\ UNCHANGED <<initialized, algorithms>>

\* generatePlan(weekNumber, testMax, history) of one strategy, called
\* without the engine
StrategyGeneratePlan ==
  /\ pc = "idle"
  /\ UNCHANGED outsideEngine
  /\ \E name \in AlgorithmNames, weekNumber \in WeekNumbers, testMax \in TestMaxValues,
        history \in Histories :
       /\ call' = [op |-> "generatePlan", name |-> name, weekNumber |-> weekNumber,
                   testMax |-> testMax, history |-> history]
       /\ result' = GeneratePlan(name, weekNumber, testMax, FALSE, history)
  /\ pc' = "returned"
  /\ UNCHANGED <<initialized, algorithms>>

\* fitLinear(points) of the numeric toolkit
FitLinear ==
  /\ pc = "idle"
  /\ UNCHANGED outsideEngine
  /\ \E points \in PointLists :
       /\ call' = [op |-> "fitLinear", points |-> points]
       /\ result' = [threw |-> FALSE, model |-> fitLinear(points)]
  /\ pc' = "returned"
  /\ UNCHANGED <<initialized, algorithms>>

\* fitPolynomial(points) of the numeric toolkit
FitPolynomial ==
  /\ pc = "idle"
  /\ UNCHANGED outsideEngine
  /\ \E points \in PointLists :
       /\ call' = [op |-> "fitPolynomial", points |-> points]
       /\ result' = [threw |-> FALSE, model |-> fitPolynomial(points)]
  /\ pc' = "returned"
  /\ UNCHANGED <<initialized, algorithms>>

\* the caller takes the result; the engine keeps nothing of the call
Return ==
  /\ pc = "returned"
  /\ UNCHANGED outsideEngine
  /\ pc' = "idle"
  /\ call' = NoCall
  /\ result' = NoResult
  /\ UNCHANGED <<initialized, algorithms>>

Next ==
  \/ Initialize
  \/ ProcessNewWeek
  \/ GetAllPredictions
  \/ SimulateHistoricalScoring
  \/ GetEligibleAlgorithms
  \/ DistributeVolume
  \/ StrategyGeneratePlan
  \/ CalculateTrendScore
  \/ GetPredictedWeeklyVolume
  \/ FitLinear
  \/ FitPolynomial
  \/ Return

Spec == Init /\ [][Next]_vars

\* the same engine, called with BigInt test maxima as well
NextUntyped ==
  \/ Next
  \/ ProcessNewWeekBigInt

SpecUntyped == Init /\ [][NextUntyped]_vars

(* ------------------------------------------------------------------ *)
(* Properties of processNewWeek                                        *)
(* ------------------------------------------------------------------ *)
\* a call of processNewWeek has just returned a value to its caller
WeekReturned == pc = "returned" /\ call.op = "processNewWeek" /\ ~result.threw

\* a call of processNewWeek has just ended, with a value or an exception
WeekEnded == pc = "returned" /\ call.op = "processNewWeek"

\* reps in [3, ceil(testMax * 1.2)], sets in [2, 10], rest in [20, 180]
InSafetyBounds(day, testMax) ==
  /\ 3 <= day.reps /\ 5 * day.reps < 6 * testMax + 5
  /\ 2 <= day.series /\ day.series <= 10
  /\ 20 <= day.rest /\ day.rest <= 180

PlanInSafetyBounds(plan, testMax) ==
  \A i \in 1..Len(plan) : InSafetyBounds(plan[i], testMax)

\* every day of the plan is `sets` sets of `reps` reps with `rest` s of rest
UniformPlan(plan, sets, reps, rest) ==
  \A i \in 1..Len(plan) :
    plan[i].series = sets /\ plan[i].reps = reps /\ plan[i].rest = rest

\* C1 as stated: with testMax >= 1, on every path, every day of the
\* returned plan has reps in [3, ceil(testMax * 1.2)], sets in [2, 10] and
\* rest in [20, 180].
C1_EveryTestMax ==
  (WeekReturned /\ call.testMax >= 1)
    => PlanInSafetyBounds(result.plan, call.testMax)

\* C1, amended: with testMax >= 2, on every path (beginner plan, first
\* week, scored selection, Linear fallback, with or without the correction
\* of an impossible week), every day of the returned plan has reps in
\* [3, ceil(testMax * 1.2)], sets in [2, 10] and rest in [20, 180]; with
\* testMax = 1 the beginner plan is returned as it is, 5 sets of 3 reps with
\* 90 s of rest, its reps above ceil(1.2) = 2.
C1_SafetyClampClosure ==
  /\ (WeekReturned /\ call.testMax >= 2)
       => PlanInSafetyBounds(result.plan, call.testMax)
  /\ (WeekReturned /\ call.testMax = 1)
       => UniformPlan(result.plan, 5, 3, 90)

\* the bounds changed a plan that Linear generated as a fallback and the
\* impossible rule corrected
C1_ClampActed ==
  /\ WeekReturned /\ call.testMax >= 5 /\ call.impossible /\ result.fallback
  /\ Len(result.plan) = 6
  /\ result.plan # applyImpossibleRule(result.rawPlan)

\* C2: for testMax in {1, 2, 3, 4} and any weekNumber, history,
\* scoringHistory and impossible flag, processNewWeek returns "linear",
\* isBeginnerMode true and 6 days of 5 sets x 3 reps x 90 s; no predictor,
\* no plan generator and no score takes part.
C2_BeginnerOverride ==
  (WeekEnded /\ call.testMax \in 1..4)
    => /\ ~result.threw
       /\ result.algorithm = "linear"
       /\ result.isBeginnerMode
       /\ Len(result.plan) = 6
       /\ UniformPlan(result.plan, 5, 3, 90)
       /\ result.predictCalls = {}
       /\ result.generateCalls = <<>>
       /\ ~result.scorerCalled
       /\ ~result.hasScores

\* a beginner's call in week 4 with a history, past scores and an
\* impossible week behind: everything a scored selection would use
C2_BeginnerWithHistory ==
  /\ WeekReturned /\ call.testMax = 4 /\ call.weekNumber = 4
  /\ Len(call.history) = 2 /\ Len(call.scoringHistory) = 2 /\ call.impossible
  /\ result.isBeginnerMode /\ Len(result.plan) = 6

\* the plan the selected strategy, or Linear as its fallback, generates
\* for the arguments of the call
StrategyPlanOfCall ==
  GeneratePlan(IF result.fallback THEN "linear" ELSE result.algorithm,
               call.weekNumber, call.testMax, call.isBigInt, call.history).plan

\* the day corrected once by the impossible rule, then clamped
CorrectedOnce(day, testMax) ==
  [series |-> clamp(day.series * 2, 2, 10),
   reps |-> clamp(CeilDiv(day.reps, 2), 3, CeilDiv(6 * testMax, 5)),
   rest |-> clamp(Max(30, day.rest - 15), 20, 180)]

\* the day clamped without correction
Uncorrected(day, testMax) ==
  [series |-> clamp(day.series, 2, 10),
   reps |-> clamp(day.reps, 3, CeilDiv(6 * testMax, 5)),
   rest |-> clamp(day.rest, 20, 180)]

\* C3: with the impossible flag set, every day of the plan the strategy
\* produced is corrected exactly once (sets * 2, reps = ceil(reps / 2),
\* rest = max(30, rest - 15)) after generation and before the final clamp,
\* which does not correct it again; with the flag false no day is corrected.
C3_ImpossibleRuleOnce ==
  (WeekReturned /\ ~result.isBeginnerMode)
    => /\ result.rawPlan = StrategyPlanOfCall
       /\ Len(result.plan) = Len(result.rawPlan)
       /\ \A i \in 1..Len(result.plan) :
            result.plan[i] = IF call.impossible
                             THEN CorrectedOnce(result.rawPlan[i], call.testMax)
                             ELSE Uncorrected(result.rawPlan[i], call.testMax)

\* a generated day of 4 sets x 10 reps x 60 s came out as 8 x 5 x 45
C3_FourTenSixty ==
  /\ WeekReturned /\ ~result.isBeginnerMode /\ call.impossible
  /\ \E i \in 1..Len(result.plan) :
       /\ result.rawPlan[i] = [series |-> 4, reps |-> 10, rest |-> 60]
       /\ result.plan[i] = [series |-> 8, reps |-> 5, rest |-> 45]

\* Linear's plan operation on the arguments of the call
LinearPlanOfCall ==
  LinearGeneratePlan(call.weekNumber, call.testMax, call.isBigInt, call.history)

\* the plan of Linear for the arguments of the call, corrected and clamped
LinearFallbackOfCall ==
  CorrectAndBound(LinearPlanOfCall.plan, call.testMax, call.impossible)

C5_ThrowingPredictorIsNull ==
  LET Throws(name) == PredictTestMax(name, call.weekNumber, call.history).threw
      Holds(eligible) ==
        (\E i \in 1..Len(eligible) : Throws(eligible[i]))
          => /\ ~result.threw
             /\ \A i \in 1..Len(eligible) :
                  /\ eligible[i] \in DOMAIN result.predictions
                  /\ IF Throws(eligible[i])
                     THEN result.predictions[eligible[i]] = 0
                     ELSE result.predictions[eligible[i]] >= 1
             /\ result.scorerCalled /\ result.hasScores
             /\ Len(result.scores) = Len(eligible)
             /\ \E i \in 1..Len(eligible) : eligible[i] = result.algorithm
             /\ Len(result.plan) = 6
  IN  (WeekEnded /\ call.testMax >= 5 /\ call.weekNumber > 1 /\ call.history # <<>>)
        => Holds(getEligibleAlgorithms(call.weekNumber))

\* Banister's predictor threw, the four others predicted, a plan came back
C5_BanisterThrew ==
  /\ WeekReturned /\ result.predictThrew = {"banister"}
  /\ result.predictions["banister"] = 0
  /\ \A name \in AlgorithmNames \ {"banister"} : result.predictions[name] >= 1
  /\ result.hasScores /\ Len(result.plan) = 6

\* C6 as stated: processNewWeek called with an invalid weekNumber (zero or
\* negative here) throws to the caller instead of returning a selection
\* and a plan.
C6_InvalidWeekNumberThrows ==
  (WeekEnded /\ call.weekNumber < 1) => result.threw

\* the names of a list of strategies
NamesOf(list) == {list[i] : i \in 1..Len(list)}

\* C7: the eligibility gate returns [linear] for week <= 1, [linear, rir]
\* for week 2, [linear, dup, rir] for week 3 and [linear, banister, dup,
\* rir, regression] for every week >= 4, in that order, so the eligible set
\* never shrinks as the week number grows.
C7_EligibilityGate ==
  (pc = "returned" /\ call.op = "getEligibleAlgorithms")
    => /\ result.eligible =
            IF call.weekNumber <= 1 THEN <<"linear">>
            ELSE IF call.weekNumber = 2 THEN <<"linear", "rir">>
            ELSE IF call.weekNumber = 3 THEN <<"linear", "dup", "rir">>
            ELSE <<"linear", "banister", "dup", "rir", "regression">>
       /\ \A earlier \in EligibilityWeeks :
            earlier <= call.weekNumber
              => NamesOf(getEligibleAlgorithms(earlier)) \subseteq NamesOf(result.eligible)

\* the gate was asked for week 10 and returned the five strategies
C7_WeekTen ==
  /\ pc = "returned" /\ call.op = "getEligibleAlgorithms" /\ call.weekNumber = 10
  /\ Len(result.eligible) = 5

\* C8: with testMax >= 5 and weekNumber <= 1 or an empty history,
\* processNewWeek returns "linear" with scores null, isBeginnerMode false
\* and a plan of 6 days, and neither a predictor nor the scorer is invoked.
C8_ColdStart ==
  (WeekEnded /\ call.testMax >= 5 /\ (call.weekNumber <= 1 \/ call.history = <<>>))
    => /\ ~result.threw
       /\ result.algorithm = "linear"
       /\ ~result.hasScores
       /\ ~result.isBeginnerMode
       /\ Len(result.plan) = 6
       /\ result.predictCalls = {}
       /\ ~result.scorerCalled

\* processNewWeek(1, 12, [], [], false) has returned
C8_FirstWeekOfTwelve ==
  /\ WeekReturned /\ call.weekNumber = 1 /\ call.testMax = 12
  /\ call.history = <<>> /\ call.scoringHistory = <<>> /\ ~call.impossible
  /\ result.algorithm = "linear" /\ ~result.hasScores /\ Len(result.plan) = 6

\* the place of a strategy in the declared order
DeclaredPosition(name) == CHOOSE i \in 1..Len(AlgorithmOrder) : AlgorithmOrder[i] = name

\* C9: whenever scoring runs, the selected strategy is an eligible strategy
\* of maximal composite score, and among several of maximal composite the
\* one that comes first in the declared order linear, banister, dup, rir,
\* regression.
C9_ArgmaxFirstDeclared ==
  LET Holds(scores, eligible) ==
        /\ NamesOf(eligible) = {scores[i].name : i \in 1..Len(scores)}
        /\ \E i \in 1..Len(scores) :
             /\ scores[i].name = result.algorithm
             /\ \A j \in 1..Len(scores) :
                  /\ scores[j].composite <= scores[i].composite
                  /\ (scores[j].composite = scores[i].composite /\ j # i)
                       => DeclaredPosition(scores[i].name) < DeclaredPosition(scores[j].name)
  IN  (WeekReturned /\ result.hasScores)
        => Holds(result.scores, getEligibleAlgorithms(call.weekNumber))

\* two eligible strategies share the maximal composite and the one declared
\* first, not Linear, is selected
C9_TieForFirst ==
  /\ WeekReturned /\ result.hasScores /\ result.algorithm # "linear"
  /\ \E i, j \in 1..Len(result.scores) :
       /\ i # j
       /\ result.scores[i].name = result.algorithm
       /\ result.scores[j].composite = result.scores[i].composite

\* processNewWeek with the arguments of the call on an engine just
\* constructed
ResultOnNewEngine ==
  processNewWeek(ensureInitialized(FALSE, <<>>), call.weekNumber, call.testMax,
                 call.isBigInt, call.history, call.scoringHistory, call.impossible)

\* C10: the result of processNewWeek is a function of its five arguments:
\* whatever was called on the engine before (initialize, processNewWeek,
\* getAllPredictions, simulateHistoricalScoring), the call returns what a
\* newly constructed engine returns for the same arguments.
C10_FunctionOfArguments ==
  WeekEnded => result = ResultOnNewEngine

\* a scored selection returned by an engine that earlier calls had
\* initialized
C10_AfterOtherCalls ==
  /\ WeekReturned /\ call.wasInitialized /\ result.hasScores
  /\ Len(result.plan) = 6

\* the days of a plan: entry i of the sequence is the plan of day i + 1
DaysOf(plan) == {i + 1 : i \in DOMAIN plan}

\* C11: every plan processNewWeek returns has exactly 6 entries, one for
\* each of days 2 to 7, on every path: beginner plan, first week, scored
\* selection, Linear fallback, with or without the impossible rule.
C11_SixDays ==
  WeekReturned => (Len(result.plan) = 6 /\ DaysOf(result.plan) = 2..7)

\* a scored selection of a strategy other than Linear, its own plan
\* corrected by the impossible rule, has six days
C11_ScoredAndCorrected ==
  /\ WeekReturned /\ result.hasScores /\ result.algorithm # "linear"
  /\ ~result.fallback /\ call.impossible
  /\ DaysOf(result.plan) = 2..7

\* a score between 0 and 100, in tenths
IsScore(score) == 0 <= score /\ score <= 1000

\* C12: every precision, feedback, trend and composite score the scorer
\* produces for an eligible strategy lies in [0, 100], whatever the history
\* and the scoring history (empty scoring history, weeks without feedback,
\* predictions far from the outcome).
C12_ScoresInRange ==
  (WeekReturned /\ result.hasScores)
    => \A i \in 1..Len(result.scores) :
         /\ IsScore(result.scores[i].scorePrecision)
         /\ IsScore(result.scores[i].scoreFeedback)
         /\ IsScore(result.scores[i].scoreTendance)
         /\ IsScore(result.scores[i].composite)

\* a prediction so far from the outcome that the precision score is 0,
\* and a strategy selected only in weeks whose feedback scores 0
C12_FarPrediction ==
  /\ WeekReturned /\ result.hasScores
  /\ \E i \in 1..Len(result.scores) : result.scores[i].scorePrecision = 0
  /\ \E i \in 1..Len(result.scores) : result.scores[i].scoreFeedback = 0

\* distributeVolume has just returned
VolumeDistributed == pc = "returned" /\ call.op = "distributeVolume"

\* one share per ratio, the shares summing to Math.round(total)
SharesReconciled ==
  /\ Len(result.shares) = Len(call.ratios)
  /\ \A i \in 1..Len(result.shares) : result.shares[i] \in Int
  /\ SeqSum(result.shares) = RoundDiv(call.totalTenths, 10)

\* C13 as stated: for every total and every non-empty list of ratios,
\* distributeVolume returns one integer share per ratio and the shares sum to
\* exactly round(total).
C13_EveryRatioList ==
  VolumeDistributed => SharesReconciled

\* C13, amended: for every total and every non-empty list of ratios whose
\* sum is not zero, distributeVolume returns one integer share per ratio and
\* the shares sum to exactly round(total); when the ratios sum to zero it
\* returns a share of 0 for every ratio.
C13_SharesSumToRoundedTotal ==
  /\ (VolumeDistributed /\ SeqSum(call.ratios) # 0) => SharesReconciled
  /\ (VolumeDistributed /\ SeqSum(call.ratios) = 0)
       => /\ Len(result.shares) = Len(call.ratios)
          /\ \A i \in 1..Len(result.shares) : result.shares[i] = 0

\* distributeVolume(100, [1, 1, 1]) returned 34, 33, 33
C13_HundredInThree ==
  /\ VolumeDistributed /\ call.totalTenths = 1000 /\ call.ratios = <<1, 1, 1>>
  /\ result.shares = <<34, 33, 33>>


(* C14: fitPolynomial returns exactly the model that fitLinear returns *)
(* for the same points, with quadratic coefficient 0, whenever fewer   *)
(* than 3 points are given or the determinant of the matrix of the     *)
(* normal equations is numerically zero, and a quadratic model only    *)
(* otherwise.                                                          *)
PolynomialFitted == pc = "returned" /\ call.op = "fitPolynomial"

DegenerateFit(points) == Len(points) < 3 \/ determinant3x3(NormalMatrix(points)) = 0

C14_PolynomialFallback ==
  PolynomialFitted =>
    IF DegenerateFit(call.points)
    THEN /\ result.model = fitLinear(call.points)
         /\ result.model.type = "linear"
         /\ result.model.a.n = 0
    ELSE /\ result.model.type = "polynomial"
         /\ result.model.a.d # 0 /\ result.model.b.d # 0 /\ result.model.c.d # 0

\* three points on two weeks: the determinant is zero
C14_SingularSystem ==
  /\ PolynomialFitted
  /\ Len(call.points) = 3
  /\ determinant3x3(NormalMatrix(call.points)) = 0
  /\ result.model.type = "linear"
  /\ result.model.b.n # 0

(* C15: fitLinear does not fail on sparse or degenerate data: with no  *)
(* point, with one point, or with all the x equal, it returns a flat   *)
(* model, of slope 0, and divides by zero nowhere.                     *)
LinearFitted == pc = "returned" /\ call.op = "fitLinear"

AllXEqual(points) == \A i, j \in 1..Len(points) : points[i].x = points[j].x

IsDefined(value) == value.d > 0

C15_FlatOnDegenerateData ==
  LinearFitted =>
    /\ ~result.threw
    /\ IsDefined(result.model.a) /\ IsDefined(result.model.b)
    /\ IsDefined(result.model.c) /\ IsDefined(result.model.stdError2)
    /\ AllXEqual(call.points) =>
         (result.model.b.n = 0 /\ result.model.a.n = 0 /\ result.model.type = "linear")

\* three points of the same week and different test maxima
C15_SameWeekThrice ==
  /\ LinearFitted
  /\ Len(call.points) = 3
  /\ AllXEqual(call.points)
  /\ call.points[1].y # call.points[2].y
  /\ result.model.c = Frac(7, 3)


\* the strategy was the selected one of no week of the history
NeverSelected(history, algoName) ==
  \A i \in 1..Len(history) : history[i].selectedAlgorithm # algoName

\* C16: a strategy that was the selected strategy of no week of the history
\* receives a feedback score of exactly 50, whatever feedback the weeks run
\* under other strategies received.
C16_NeverSelectedIsNeutral ==
  (WeekReturned /\ result.hasScores)
    => \A i \in 1..Len(result.scores) :
         NeverSelected(call.history, result.scores[i].name)
           => result.scores[i].scoreFeedback = NEUTRAL_SCORE

\* a history whose weeks all received feedback, a selected strategy whose
\* feedback score is not 50, and a scored strategy that no week selected
C16_OthersHadFeedback ==
  /\ WeekReturned /\ result.hasScores
  /\ Len(call.history) = 2
  /\ \A i \in 1..2 : call.history[i].facile + call.history[i].parfait + call.history[i].impossible > 0
  /\ \E i, j \in 1..Len(result.scores) :
       /\ NeverSelected(call.history, result.scores[i].name)
       /\ result.scores[i].scoreFeedback = NEUTRAL_SCORE
       /\ ~NeverSelected(call.history, result.scores[j].name)
       /\ result.scores[j].scoreFeedback # NEUTRAL_SCORE


\* the weighted mean of C17, in tenths: one per-week score for each week
\* of the scoring history with a known outcome, and one for the prediction
\* the scoring history has for the week `current` against the new test
\* max; the weight 0.9 ^ weeksAgo is 9 ^ weeksAgo * 10 ^ (MaxWeek - weeksAgo)
\* / 10 ^ MaxWeek; 50 without any
WeightedMeanOfWeeks(scoringHistory, algoName, actualTestMax, current) ==
  LET Known(i) == scoringHistory[i].prediction[algoName] > 0 /\ scoringHistory[i].actual > 0
      Live(i) ==
        /\ actualTestMax > 0
        /\ scoringHistory[i].weekNumber = current
        /\ scoringHistory[i].prediction[algoName] > 0
      WeeksAgo(i) == Abs(current - scoringHistory[i].weekNumber)
      Weight(i) == Pow(9, WeeksAgo(i)) * Pow(10, MaxWeek - WeeksAgo(i))
      Prediction(i) == scoringHistory[i].prediction[algoName]
      Mean(total, weights) ==
        IF weights = 0 THEN NEUTRAL_SCORE ELSE clamp(RoundDiv(total, weights), 0, 1000)
  IN  Mean(SeqSum([i \in 1..Len(scoringHistory) |->
                    (IF Known(i)
                     THEN Weight(i) * singlePrecisionScore(Prediction(i), scoringHistory[i].actual)
                     ELSE 0)
                    + (IF Live(i)
                       THEN Weight(i) * singlePrecisionScore(Prediction(i), actualTestMax)
                       ELSE 0)]),
           SeqSum([i \in 1..Len(scoringHistory) |->
                    (IF Known(i) THEN Weight(i) ELSE 0) + (IF Live(i) THEN Weight(i) ELSE 0)]))

\* the week of the last entry of a scoring history, 0 of an empty one
LatestWeek(scoringHistory) ==
  IF scoringHistory = <<>> THEN 0 ELSE scoringHistory[Len(scoringHistory)].weekNumber

\* C17 as stated: a strategy's precision score is the 0.9 ^ weeksAgo
\* weighted average of the per-week scores clamp(100 - |predicted - actual|
\* / actual * 200, 0, 100), taken once for each week of the scoring history
\* with a known outcome, and including the prediction of the current week,
\* the week being processed, against the new test max if the scoring
\* history has one; without any such data it is the neutral 50.
C17_OncePerWeek ==
  (WeekReturned /\ result.hasScores)
    => \A i \in 1..Len(result.scores) :
         result.scores[i].scorePrecision
           = WeightedMeanOfWeeks(call.scoringHistory, result.scores[i].name, call.testMax,
                                 call.weekNumber)

\* C17 as the code has it: the current week is the latest week of the
\* scoring history, whatever the week being processed, so that the
\* prediction of the latest week is scored against its own outcome and
\* once more against the new test max.
C17_LatestWeekTwice ==
  (WeekReturned /\ result.hasScores)
    => \A i \in 1..Len(result.scores) :
         result.scores[i].scorePrecision
           = WeightedMeanOfWeeks(call.scoringHistory, result.scores[i].name, call.testMax,
                                 LatestWeek(call.scoringHistory))

\* week 3 with the test max 14 and a scoring history of week 2 alone, where
\* Linear predicted 11 for 12: 83.3 for the week, 57.1 against 14, 70.2
C17_PastWeekAgainstNewMax ==
  /\ WeekReturned /\ result.hasScores
  /\ call.weekNumber = 3 /\ call.testMax = 14
  /\ Len(call.scoringHistory) = 1
  /\ \E i \in 1..Len(result.scores) :
       result.scores[i].name = "linear" /\ result.scores[i].scorePrecision = 702


\* calculateTrendScore has just returned for a history with at least two
\* capacity results
TrendScored ==
  /\ pc = "returned" /\ call.op = "calculateTrendScore"
  /\ Len(SelectSeq(call.maxes, LAMBDA v : v > 0)) >= 2

\* the last 3 capacity results of the call
LastResults ==
  LET Last(results) == SubSeq(results, Max(1, Len(results) - 2), Len(results))
  IN  Last(SelectSeq(call.maxes, LAMBDA v : v > 0))

StrictlyIncreasing(values) == \A i \in 2..Len(values) : values[i] > values[i - 1]

StrictlyDecreasing(values) == \A i \in 2..Len(values) : values[i] < values[i - 1]

NeverDecreasing(values) == \A i \in 2..Len(values) : values[i] >= values[i - 1]

NeverIncreasing(values) == \A i \in 2..Len(values) : values[i] <= values[i - 1]

\* the variation between the first and the last value is below 5 %
VariationBelowThreshold(values) == 20 * Abs(values[Len(values)] - values[1]) < values[1]

ScoredIncreasing == 800 <= result.score /\ result.score <= 1000

ScoredDecreasing == 0 <= result.score /\ result.score <= 200

ScoredStagnant == result.score = 400

\* C18 as stated: the last 3 capacity results are classified in this order:
\* a monotonically increasing sequence is scored as increasing (80 to 100),
\* a monotonically decreasing one as decreasing (0 to 20), otherwise a
\* sequence whose variation is below 5 % is stagnant (40), otherwise the
\* direction of the endpoints decides.
C18_MonotonyFirst ==
  TrendScored =>
    IF StrictlyIncreasing(LastResults) THEN ScoredIncreasing
    ELSE IF StrictlyDecreasing(LastResults) THEN ScoredDecreasing
    ELSE IF VariationBelowThreshold(LastResults) THEN ScoredStagnant
    ELSE IF LastResults[Len(LastResults)] > LastResults[1] THEN ScoredIncreasing
    ELSE ScoredDecreasing

\* C18, amended: a sequence whose variation from the first to the last of
\* the last 3 capacity results is below 5 % is stagnant (40) even when it is
\* monotonic; otherwise a sequence that never decreases is scored as
\* increasing (80 to 100), one that never increases as decreasing (0 to
\* 20), and otherwise the direction of the endpoints decides.
C18_StagnationFirst ==
  TrendScored =>
    IF VariationBelowThreshold(LastResults) THEN ScoredStagnant
    ELSE IF NeverDecreasing(LastResults) THEN ScoredIncreasing
    ELSE IF NeverIncreasing(LastResults) THEN ScoredDecreasing
    ELSE IF LastResults[Len(LastResults)] > LastResults[1] THEN ScoredIncreasing
    ELSE ScoredDecreasing

\* 21 then 22: strictly increasing, by less than 5 %, scored 40
C18_SmallRise ==
  /\ TrendScored
  /\ LastResults = <<21, 22>>
  /\ result.score = 400


\* the RIR strategy has just picked a volume multiplier
MultiplierPicked == pc = "returned" /\ call.op = "getPredictedWeeklyVolume"

\* the multiplier and the volume of the result, multipliers in tenths
PickedIs(multiplier) ==
  /\ result.multiplier = multiplier
  /\ result.volume = RoundDiv(call.testMax * multiplier, 10)

\* C19 as stated: the RIR strategy picks its volume multiplier from the
\* prior week's average RIR by the ordered table: 4.0 only when the average
\* is strictly greater than 3.5, 3.5 when it is at least 2.0 (an average of
\* exactly 3.5 gives 3.5), 3.0 when it is at least 1.0, and 2.0 (deload)
\* below 1.0.
C19_FourAboveThreePointFive ==
  MultiplierPicked =>
    IF call.rirMoyen > 35 THEN PickedIs(40)
    ELSE IF call.rirMoyen >= 20 THEN PickedIs(35)
    ELSE IF call.rirMoyen >= 10 THEN PickedIs(30)
    ELSE PickedIs(20)

\* C19 as the code has it: 4.0 from an average of 3.5 on.
C19_FourFromThreePointFive ==
  MultiplierPicked =>
    IF call.rirMoyen >= 35 THEN PickedIs(40)
    ELSE IF call.rirMoyen >= 20 THEN PickedIs(35)
    ELSE IF call.rirMoyen >= 10 THEN PickedIs(30)
    ELSE PickedIs(20)

\* an average RIR of exactly 3.5 and a test max of 12: 4.0 and 48 reps
C19_ExactlyThreePointFive ==
  /\ MultiplierPicked
  /\ call.rirMoyen = 35 /\ call.testMax = 12
  /\ result.multiplier = 40 /\ result.volume = 48


\* a strategy's generatePlan, called directly, has just ended
PlanGenerated == pc = "returned" /\ call.op = "generatePlan"

\* C20: each of the five strategies, when its generatePlan is called
\* directly with testMax < 5, returns for any weekNumber and history a plan
\* of 6 days that are all 5 sets of 3 reps with 90 s of rest, without the
\* engine's own beginner override.
C20_StrategyBeginnerMode ==
  (PlanGenerated /\ call.testMax < 5)
    => /\ ~result.threw
       /\ Len(result.plan) = 6
       /\ \A i \in 1..6 : result.plan[i] = [series |-> 5, reps |-> 3, rest |-> 90]

\* Banister called for week 4 with a test max of 4 and a history whose last
\* week holds a null session, on which its normal plan throws
C20_BanisterOnCorruptHistory ==
  /\ PlanGenerated
  /\ call.name = "banister" /\ call.testMax = 4 /\ call.weekNumber = 4
  /\ Len(call.history) = 2 /\ call.history[2].corrupt
  /\ ~result.threw /\ Len(result.plan) = 6
  /\ GeneratePlan("banister", 4, 5, FALSE, call.history).threw


\* the plan processNewWeek returns for the arguments of the call with the
\* impossible flag cleared
PlanWithoutFlag ==
  processNewWeek(algorithms, call.weekNumber, call.testMax, call.isBigInt, call.history,
                 call.scoringHistory, FALSE).plan

\* sets * reps of a day
DayVolume(day) == day.series * day.reps

\* processNewWeek returned a plan for a call with the impossible flag set
FlaggedWeekReturned == WeekReturned /\ call.impossible

\* C21 as stated: in the plan returned when the impossible flag is set, each
\* day's volume sets * reps is never lower than that day's volume in the plan
\* returned for the same inputs without the flag, exceeds it by at most one
\* rep per original set, and reps per set is never higher.
C21_VolumePreserved ==
  FlaggedWeekReturned
    => /\ Len(result.plan) = Len(PlanWithoutFlag)
       /\ \A i \in 1..Len(result.plan) :
            /\ DayVolume(result.plan[i]) >= DayVolume(PlanWithoutFlag[i])
            /\ DayVolume(result.plan[i]) - DayVolume(PlanWithoutFlag[i])
                 <= PlanWithoutFlag[i].series
            /\ result.plan[i].reps <= PlanWithoutFlag[i].reps

\* C21, the part about difficulty alone: with the flag set no day has more
\* reps per set than the same day without the flag
C21_RepsNeverHigher ==
  FlaggedWeekReturned
    => /\ Len(result.plan) = Len(PlanWithoutFlag)
       /\ \A i \in 1..Len(result.plan) :
            result.plan[i].reps <= PlanWithoutFlag[i].reps

\* C21, the part about the floor of the volume alone
C21_VolumeNeverLower ==
  FlaggedWeekReturned
    => \A i \in 1..Len(result.plan) :
         DayVolume(result.plan[i]) >= DayVolume(PlanWithoutFlag[i])

\* week 1 with a test max of 5 and no history: a day generated below 6 reps
\* keeps 3 reps per set under the flag and doubles its sets, so its volume
\* doubles
C21_VolumeDoubled ==
  /\ FlaggedWeekReturned
  /\ call.weekNumber = 1 /\ call.testMax = 5 /\ call.history = <<>>
  /\ \E i \in 1..Len(result.plan) :
       /\ result.rawPlan[i].reps < 6
       /\ result.plan[i].reps = 3 /\ PlanWithoutFlag[i].reps = 3
       /\ DayVolume(result.plan[i]) = 2 * DayVolume(PlanWithoutFlag[i])


(* ------------------------------------------------------------------ *)
(* The State singleton and its Database (state.js)                     *)
(* ------------------------------------------------------------------ *)

\* the capacity tests the user records
StoreTestMaxes == {10, 12}

\* the strategies the store is told about
StoreAlgorithms == {"linear", "dup"}

\* what a session is rated with; "null" before the feedback screen
Feedbacks == {"null", "facile"}

\* the training days sessions are saved for
SessionDays == {2}

\* DEFAULT_PROFILE
DEFAULT_PROFILE == [exists |-> TRUE, currentWeek |-> 1, currentDay |-> 1, selectedAlgorithm |-> "linear"]

\* DEFAULT_WEEK; predictions travel with algorithmScores, and the feedback
\* summary is followed by its count of easy sessions and its total
DEFAULT_WEEK ==
  [testMax |-> 0, previousTestMax |-> 0, selectedAlgorithm |-> "linear",
   algorithmScores |-> "null", plan |-> "null",
   feedbackSummary |-> [facile |-> 0, total |-> 0], status |-> "pending"]

\* a week record: DEFAULT_WEEK under the key weekNumber
WeekRecord(weekNumber) == [weekNumber |-> weekNumber] @@ DEFAULT_WEEK

\* getCurrentWeekNumber()
getCurrentWeekNumber(p) == IF p.currentWeek = 0 THEN 1 ELSE p.currentWeek

\* getCurrentDayNumber()
getCurrentDayNumber(p) == IF p.currentDay = 0 THEN 1 ELSE p.currentDay

\* Database.saveProfile(data) then getProfile(): the fields of data over
\* the stored profile; a field of data that is 0 or "null" is absent
saveProfile(p, data) ==
  [exists |-> TRUE,
   currentWeek |-> IF data.currentWeek # 0 THEN data.currentWeek ELSE p.currentWeek,
   currentDay |-> IF data.currentDay # 0 THEN data.currentDay ELSE p.currentDay,
   selectedAlgorithm |-> IF data.selectedAlgorithm # "null" THEN data.selectedAlgorithm
                         ELSE p.selectedAlgorithm]

\* the argument of updateProfile with none of the three fields
NoFields == [currentWeek |-> 0, currentDay |-> 0, selectedAlgorithm |-> "null"]

\* Database.saveWeek(data): put under the key of the week number
saveWeek(store, data) == [store EXCEPT ![data.weekNumber] = data]

\* Database.getAllWeeks(): the stored records by ascending week number
getAllWeeks(store) ==
  SelectSeq([w \in StoreWeeks |-> store[w]], LAMBDA r : r # NoWeek)

\* Database.getSessionsByWeek(weekNumber)
getSessionsByWeek(store, weekNumber) ==
  SelectSeq([d \in WeekDays |-> store[weekNumber][d]], LAMBDA r : r # NoSession)

\* Database.getScoringHistory(): the stored entries by ascending week number
getScoringHistory(store) ==
  SelectSeq([w \in StoreWeeks |-> store[w]], LAMBDA r : r # NoEntry)

\* getWeekFeedbackSummary(): over the cached sessions that are completed
\* training sessions
getWeekFeedbackSummary(sessions) ==
  LET Training == SelectSeq(sessions, LAMBDA r : r.type # "test_max" /\ r.status = "completed")
  IN  [facile |-> Len(SelectSeq(Training, LAMBDA r : r.feedback = "facile")),
       total |-> Len(Training)]

\* what saveTestMax is given besides the test: nothing, or what the
\* test-max screen passes (the strategy, its scores or null, the plan)
ExtraDatas ==
  {[selectedAlgorithm |-> a, algorithmScores |-> c, plan |-> p] :
     a \in {"dup"}, c \in {"scores"}, p \in {"plan"}}
  \cup {[selectedAlgorithm |-> "absent", algorithmScores |-> "absent", plan |-> "absent"]}

\* a field of extraData over a field of the week: {...weekData, ...extraData}
Spread(field, over) == IF over = "absent" THEN field ELSE over

\* the week cache and store as setCurrentWeek reads and writes them
WeekState == [db |-> dbWeeks, current |-> cacheCurrentWeek, all |-> cacheWeeks]

\* setCurrentWeek(weekData): the record put in the store, read back as the
\* current week, and the list of weeks refreshed
setCurrentWeek(W, data) ==
  [db |-> saveWeek(W.db, data), current |-> data, all |-> getAllWeeks(saveWeek(W.db, data))]

\* _completeCurrentWeek(): nothing without a current week in the cache
completeCurrentWeek(W, sessions) ==
  IF W.current = NoWeek THEN W
  ELSE setCurrentWeek(W, [W.current EXCEPT !.status = "completed",
                                          !.feedbackSummary = getWeekFeedbackSummary(sessions)])

\* _updateWeekFeedbackSummary(weekNumber): the stored week rewritten with
\* the summary of the cached sessions and made the current week; the list
\* of weeks is not refreshed
updateWeekFeedbackSummary(W, weekNumber, sessions) ==
  IF W.db[weekNumber] = NoWeek THEN W
  ELSE LET week == [W.db[weekNumber] EXCEPT !.feedbackSummary = getWeekFeedbackSummary(sessions)]
       IN  [db |-> saveWeek(W.db, week), current |-> week, all |-> W.all]

\* the three week variables after the handler
WeeksBecome(W) ==
  /\ dbWeeks' = W.db
  /\ cacheCurrentWeek' = W.current
  /\ cacheWeeks' = W.all

\* one more call that writes a week, a session or a scoring entry
Written == storeWrites < MaxStoreWrites /\ storeWrites' = storeWrites + 1

\* the weeks sessionData may name
StoredWeeksFor(anyWeek) ==
  IF anyWeek THEN 1..getCurrentWeekNumber(profile) ELSE {getCurrentWeekNumber(profile)}

\* the session saveTestMax records for day 1
TestMaxSession == [dayNumber |-> 1, type |-> "test_max", feedback |-> "null", status |-> "completed"]

\* createProfile(), called by the onboarding screen on the first launch
CreateProfile ==
  /\ UNCHANGED storeWrites
  /\ ~profile.exists
  /\ profile' = saveProfile(profile, DEFAULT_PROFILE)
  /\ storeCall' = [op |-> "createProfile", week |-> getCurrentWeekNumber(profile),
                   day |-> getCurrentDayNumber(profile)]
  /\ UNCHANGED <<dbWeeks, cacheCurrentWeek, cacheWeeks, dbSessions, cacheSessions, dbScoring, cacheScoringHistory>>
  /\ UNCHANGED outsideStore

\* saveTestMax(testMax, extraData)
SaveTestMax ==
  /\ Written
  /\ \E testMax \in StoreTestMaxes, extraData \in ExtraDatas :
       LET weekNumber == getCurrentWeekNumber(profile)
           previousTestMax == IF Len(cacheWeeks) > 0 THEN cacheWeeks[Len(cacheWeeks)].testMax ELSE 0
           weekData == [WeekRecord(weekNumber) EXCEPT
                          !.testMax = testMax,
                          !.previousTestMax = previousTestMax,
                          !.status = "in_progress",
                          !.selectedAlgorithm = Spread(@, extraData.selectedAlgorithm),
                          !.algorithmScores = Spread(@, extraData.algorithmScores),
                          !.plan = Spread(@, extraData.plan)]
       IN  /\ WeeksBecome(setCurrentWeek(WeekState, weekData))
           /\ dbSessions' = [dbSessions EXCEPT ![weekNumber][1] = TestMaxSession]
           /\ cacheSessions' = getSessionsByWeek(dbSessions', weekNumber)
           /\ profile' = saveProfile(profile, [NoFields EXCEPT !.currentDay = 2])
           /\ storeCall' = [op |-> "saveTestMax", week |-> weekNumber,
                            day |-> getCurrentDayNumber(profile), testMax |-> testMax]
  /\ UNCHANGED <<dbScoring, cacheScoringHistory>>
  /\ UNCHANGED outsideStore

\* saveSession(sessionData) of a training session of the day sessionData
\* names, in the current week or, with `anyWeek`, in any week up to it
SaveSessionOf(anyWeek) ==
  /\ Written
  /\ \E weekNumber \in StoredWeeksFor(anyWeek), dayNumber \in SessionDays, feedback \in Feedbacks :
       LET session == [dayNumber |-> dayNumber, type |-> "training", feedback |-> feedback,
                       status |-> "completed"]
           sessions == [dbSessions EXCEPT ![weekNumber][dayNumber] = session]
       IN  /\ dbSessions' = sessions
           /\ cacheSessions' = getSessionsByWeek(sessions, weekNumber)
           /\ WeeksBecome(IF feedback # "null"
                          THEN updateWeekFeedbackSummary(WeekState, weekNumber,
                                                         getSessionsByWeek(sessions, weekNumber))
                          ELSE WeekState)
           /\ storeCall' = [op |-> "saveSession", week |-> getCurrentWeekNumber(profile),
                            day |-> getCurrentDayNumber(profile), weekNumber |-> weekNumber,
                            dayNumber |-> dayNumber, feedback |-> feedback]
  /\ UNCHANGED <<profile, dbScoring, cacheScoringHistory>>
  /\ UNCHANGED outsideStore

\* an advanceDay that moves on from day 7 as from any other day
AdvanceDayPastSeven ==
  /\ UNCHANGED storeWrites
  /\ profile' = saveProfile(profile, [NoFields EXCEPT !.currentDay = getCurrentDayNumber(profile) + 1])
  /\ storeCall' = [op |-> "advanceDay", week |-> getCurrentWeekNumber(profile),
                   day |-> getCurrentDayNumber(profile)]
  /\ UNCHANGED <<dbWeeks, cacheCurrentWeek, cacheWeeks, dbSessions, cacheSessions, dbScoring, cacheScoringHistory>>
  /\ UNCHANGED outsideStore

\* saveSession(sessionData), sessionData naming any week up to the current
SaveSession == SaveSessionOf(TRUE)

\* saveSession(sessionData) as the session and feedback screens call it,
\* with the current week
SaveCurrentSession == SaveSessionOf(FALSE)

\* advanceDay()
AdvanceDay ==
  /\ UNCHANGED storeWrites
  /\ LET nextDay == getCurrentDayNumber(profile) + 1
     IN  IF nextDay > 7
         THEN /\ WeeksBecome(completeCurrentWeek(WeekState, cacheSessions))
              /\ UNCHANGED profile
         ELSE /\ profile' = saveProfile(profile, [NoFields EXCEPT !.currentDay = nextDay])
              /\ UNCHANGED <<dbWeeks, cacheCurrentWeek, cacheWeeks>>
  /\ storeCall' = [op |-> "advanceDay", week |-> getCurrentWeekNumber(profile),
                   day |-> getCurrentDayNumber(profile)]
  /\ UNCHANGED <<dbSessions, cacheSessions, dbScoring, cacheScoringHistory>>
  /\ UNCHANGED outsideStore

\* advanceWeek(), followed up to week MaxStoreWeek
AdvanceWeek ==
  /\ UNCHANGED storeWrites
  /\ getCurrentWeekNumber(profile) < MaxStoreWeek
  /\ LET W == IF cacheCurrentWeek = NoWeek \/ cacheCurrentWeek.status # "completed"
              THEN completeCurrentWeek(WeekState, cacheSessions)
              ELSE WeekState
     IN  /\ dbWeeks' = W.db
         /\ cacheWeeks' = W.all
  /\ profile' = saveProfile(profile, [NoFields EXCEPT
                                        !.currentWeek = getCurrentWeekNumber(profile) + 1,
                                        !.currentDay = 1])
  /\ cacheCurrentWeek' = NoWeek
  /\ cacheSessions' = <<>>
  /\ storeCall' = [op |-> "advanceWeek", week |-> getCurrentWeekNumber(profile),
                   day |-> getCurrentDayNumber(profile)]
  /\ UNCHANGED <<dbSessions, dbScoring, cacheScoringHistory>>
  /\ UNCHANGED outsideStore

\* Database.saveScoringEntry(entry): put under the key of the week number
saveScoringEntry(store, entry) == [store EXCEPT ![entry.weekNumber] = entry]

\* setAlgorithm(algorithmName, scores, predictions, reason)
SetAlgorithm ==
  /\ Written
  /\ \E algorithmName \in StoreAlgorithms :
       LET weekNumber == getCurrentWeekNumber(profile)
           W == IF cacheCurrentWeek # NoWeek
                THEN setCurrentWeek(WeekState, [cacheCurrentWeek EXCEPT
                                                  !.selectedAlgorithm = algorithmName,
                                                  !.algorithmScores = "scores"])
                ELSE WeekState
           scoringEntry == [weekNumber |-> weekNumber, calculations |-> "scores",
                            selectedAlgorithm |-> algorithmName,
                            actual |-> IF W.current = NoWeek THEN 0 ELSE W.current.testMax]
       IN  /\ profile' = saveProfile(profile, [NoFields EXCEPT !.selectedAlgorithm = algorithmName])
           /\ WeeksBecome(W)
           /\ dbScoring' = saveScoringEntry(dbScoring, scoringEntry)
           /\ cacheScoringHistory' = getScoringHistory(dbScoring')
           /\ storeCall' = [op |-> "setAlgorithm", week |-> weekNumber,
                            day |-> getCurrentDayNumber(profile), algorithmName |-> algorithmName]
  /\ UNCHANGED <<dbSessions, cacheSessions>>
  /\ UNCHANGED outsideStore

\* saveWeekPlan(plan); it throws without a current week in the cache
SaveWeekPlan ==
  /\ Written
  /\ cacheCurrentWeek # NoWeek
  /\ WeeksBecome(setCurrentWeek(WeekState, [cacheCurrentWeek EXCEPT !.plan = "plan"]))
  /\ storeCall' = [op |-> "saveWeekPlan", week |-> getCurrentWeekNumber(profile),
                   day |-> getCurrentDayNumber(profile)]
  /\ UNCHANGED <<profile, dbSessions, cacheSessions, dbScoring, cacheScoringHistory>>
  /\ UNCHANGED outsideStore

\* the operations of the store the screens call
NextStore ==
  \/ CreateProfile
  \/ SaveTestMax
  \/ SaveSession
  \/ AdvanceDay
  \/ AdvanceWeek
  \/ SetAlgorithm
  \/ SaveWeekPlan

SpecStore == Init /\ [][NextStore]_vars

\* the operations of the store with the arguments the screens pass
NextScreens ==
  \/ CreateProfile
  \/ SaveTestMax
  \/ SaveCurrentSession
  \/ AdvanceDay
  \/ AdvanceWeek
  \/ SetAlgorithm
  \/ SaveWeekPlan

SpecScreens == Init /\ [][NextScreens]_vars

\* the operations that move the calendar of the programme
NextCalendar ==
  \/ CreateProfile
  \/ SaveTestMax
  \/ AdvanceDay
  \/ AdvanceWeek

SpecCalendar == Init /\ [][NextCalendar]_vars

\* every field of the state holds a value of its type
StoreTypeOK ==
  /\ getCurrentWeekNumber(profile) \in StoreWeeks
  /\ \A w \in StoreWeeks : dbWeeks[w] # NoWeek => dbWeeks[w].weekNumber = w


(* ------------------------------------------------------------------ *)
(* Claims about the store                                              *)
(* ------------------------------------------------------------------ *)

\* the State operation `op` has just returned
StoreReturned(op) == storeCall.op = op

\* the record of the current week is stored and its status is 'completed'
CurrentWeekCompleted ==
  /\ dbWeeks[getCurrentWeekNumber(profile)] # NoWeek
  /\ dbWeeks[getCurrentWeekNumber(profile)].status = "completed"

C22_AppendOnly ==
  [][\A w \in StoreWeeks : dbScoring[w] # NoEntry => dbScoring'[w] = dbScoring[w]]_vars

\* C22, the part about removal alone: an entry stored for a week stays stored
\* for that week, and the entries of the other weeks are as they were
C22_NeverRemoved ==
  [][\A w \in StoreWeeks :
       dbScoring[w] # NoEntry
         => /\ dbScoring'[w] # NoEntry
            /\ w # getCurrentWeekNumber(profile) => dbScoring'[w] = dbScoring[w]]_vars

\* the test of week 1 validated twice: the entry of week 1 names the second
\* strategy and the second result, and the history still has one entry
C22_SecondValidationStored ==
  /\ StoreReturned("setAlgorithm") /\ storeCall.week = 1
  /\ storeCall.algorithmName = "dup"
  /\ storeWrites >= 3
  /\ Len(cacheScoringHistory) = 1
  /\ dbScoring[1].selectedAlgorithm = "dup" /\ dbScoring[1].actual = 12


C23_PastWeekSummarized ==
  /\ StoreReturned("saveSession") /\ storeCall.week = 2 /\ storeCall.weekNumber = 1
  /\ dbWeeks[1] # NoWeek /\ dbWeeks[1].feedbackSummary.facile = 1
  /\ cacheCurrentWeek = dbWeeks[1]


(* ------------------------------------------------------------------ *)
(* State.subscribe, unsubscribe and notify (state.js)                  *)
(* ------------------------------------------------------------------ *)

\* the callbacks that subscribe to the topic
Callbacks == {"a", "b"}

\* the notifications that may wait for their microtask at one time
MaxNotifications == 2

\* the elements of a sequence
Range(seq) == {seq[i] : i \in 1..Len(seq)}

\* Set.add(callback): at the end unless it is there already
SetAdd(subs, callback) == IF callback \in Range(subs) THEN subs ELSE Append(subs, callback)

\* Set.delete(callback)
SetDelete(subs, callback) == SelectSeq(subs, LAMBDA c : c # callback)

\* subscribe(topic, callback), called outside a delivery
Subscribe ==
  /\ ~delivery.running
  /\ \E callback \in Callbacks :
       /\ subscribers' = SetAdd(subscribers, callback)
       /\ unsubscribed' = unsubscribed \ {callback}
  /\ UNCHANGED <<microtasks, delivery, invocation>>
  /\ UNCHANGED outsidePubSub

\* the function subscribe returned for a subscribed callback, called
\* outside a delivery: unsubscribe(topic, callback)
Unsubscribe ==
  /\ ~delivery.running
  /\ \E callback \in Range(subscribers) :
       /\ subscribers' = SetDelete(subscribers, callback)
       /\ unsubscribed' = unsubscribed \cup {callback}
  /\ UNCHANGED <<microtasks, delivery, invocation>>
  /\ UNCHANGED outsidePubSub

\* notify(topic): nothing without subscribers, else a microtask queued
\* with a copy of the subscribers
Notify ==
  /\ ~delivery.running
  /\ Len(microtasks) < MaxNotifications
  /\ subscribers # <<>>
  /\ microtasks' = Append(microtasks, subscribers)
  /\ UNCHANGED <<subscribers, delivery, invocation, unsubscribed>>
  /\ UNCHANGED outsidePubSub

\* the microtask queued first starts: forEach over its copy
StartDelivery ==
  /\ ~delivery.running
  /\ microtasks # <<>>
  /\ delivery' = [callbacks |-> Head(microtasks), next |-> 1, running |-> TRUE]
  /\ microtasks' = Tail(microtasks)
  /\ UNCHANGED <<subscribers, invocation, unsubscribed>>
  /\ UNCHANGED outsidePubSub

\* where forEach goes after a callback that threw or returned: the next
\* callback, inside try/catch
AfterCallback(next, last, threw) == next + 1

\* forEach invokes the next callback of the copy; the callback returns or
\* throws, and may have called the unsubscribe function of a subscriber
InvokeCallback ==
  /\ delivery.running
  /\ delivery.next <= Len(delivery.callbacks)
  /\ \E threw \in BOOLEAN, cancels \in {"none"} \cup Range(subscribers) :
       LET callback == delivery.callbacks[delivery.next]
       IN  /\ invocation' = [callback |-> callback,
                             afterUnsubscribe |-> callback \in unsubscribed,
                             threw |-> threw]
           /\ delivery' = [delivery EXCEPT
                             !.next = AfterCallback(@, Len(delivery.callbacks), threw)]
           /\ subscribers' = IF cancels = "none" THEN subscribers
                             ELSE SetDelete(subscribers, cancels)
           /\ unsubscribed' = IF cancels = "none" THEN unsubscribed
                              ELSE unsubscribed \cup {cancels}
  /\ UNCHANGED microtasks
  /\ UNCHANGED outsidePubSub

\* forEach is through: the microtask ends
EndDelivery ==
  /\ delivery.running
  /\ delivery.next > Len(delivery.callbacks)
  /\ delivery' = [delivery EXCEPT !.running = FALSE]
  /\ UNCHANGED <<subscribers, microtasks, invocation, unsubscribed>>
  /\ UNCHANGED outsidePubSub

NextPubSub ==
  \/ Subscribe
  \/ Unsubscribe
  \/ Notify
  \/ StartDelivery
  \/ InvokeCallback
  \/ EndDelivery

SpecPubSub == Init /\ [][NextPubSub]_vars

\* C29 as stated: once the unsubscribe function returned by subscribe has
\* returned, the subscriber's callback is never invoked again, also not for
\* notifications issued before the unsubscribe and not yet delivered; and a
\* callback that throws does not keep the other subscribers of the same
\* notification from being called.
C29_NoCallAfterUnsubscribe ==
  /\ [](invocation # NoInvocation => ~invocation.afterUnsubscribe)
  /\ [][(delivery.running /\ delivery'.running /\ delivery' # delivery)
          => delivery'.next = delivery.next + 1]_vars

\* C29, the part about exceptions alone: a delivery goes through its copy
\* of the subscribers one callback after the other, whatever they throw
C29_ThrowDoesNotStopDelivery ==
  [][(delivery.running /\ delivery'.running /\ delivery' # delivery)
       => delivery'.next = delivery.next + 1]_vars

\* C29, the part about unsubscription alone
C29_NeverAfterUnsubscribe == invocation # NoInvocation => ~invocation.afterUnsubscribe

\* a callback unsubscribed between notify and the delivery was invoked
C29_DeliveredAfterUnsubscribe ==
  /\ invocation # NoInvocation /\ invocation.afterUnsubscribe
  /\ invocation.callback \notin Range(subscribers)
  /\ delivery.callbacks = <<invocation.callback>>


(* ------------------------------------------------------------------ *)
(* RestTimer (utils/timer.js)                                          *)
(* ------------------------------------------------------------------ *)

\* WARNING_THRESHOLD, in seconds
WARNING_THRESHOLD == 5

\* the durations the timer is given
TimerDurations == {1, MaxDuration}

\* the callbacks an operation invoked, none of them once destroy() has
\* nulled them: _fireTick, _fireWarning, _fireComplete
Fire(names) == IF timerCallbacks THEN names ELSE {}

\* the record of the operation `op`, with the state and the callbacks it
\* found and the callbacks it invoked
TimerCalled(op, fired) ==
  timerCall' = [op |-> op, from |-> timerState, hadCallbacks |-> timerCallbacks, fired |-> fired]

\* onComplete invoked once more, where the callback is still set
Completed ==
  /\ completions' = IF timerCallbacks THEN completions + 1 ELSE completions
  /\ sinceStart' = IF timerCallbacks /\ sinceStart < 2 THEN sinceStart + 1 ELSE sinceStart

\* start()
Start ==
  /\ IF timerState = "running"
     THEN UNCHANGED <<timerState, timerRemaining, rafPending, warningFired, completions, sinceStart>>
     ELSE /\ timerState' = "running"
          /\ rafPending' = TRUE
          /\ IF timerState \in {"complete", "idle"}
             THEN /\ timerRemaining' = timerDuration /\ warningFired' = FALSE
                  /\ completions' = 0 /\ sinceStart' = 0
             ELSE UNCHANGED <<timerRemaining, warningFired, completions, sinceStart>>
  /\ TimerCalled("start", {})
  /\ UNCHANGED <<timerDuration, timerCallbacks>>
  /\ UNCHANGED outsideTimer

\* pause()
Pause ==
  /\ IF timerState # "running"
     THEN UNCHANGED <<timerState, rafPending>>
     ELSE timerState' = "paused" /\ rafPending' = FALSE
  /\ TimerCalled("pause", {})
  /\ UNCHANGED <<timerDuration, timerRemaining, timerCallbacks, warningFired, completions, sinceStart>>
  /\ UNCHANGED outsideTimer

\* resume()
Resume ==
  /\ IF timerState # "paused"
     THEN UNCHANGED <<timerState, rafPending>>
     ELSE timerState' = "running" /\ rafPending' = TRUE
  /\ TimerCalled("resume", {})
  /\ UNCHANGED <<timerDuration, timerRemaining, timerCallbacks, warningFired, completions, sinceStart>>
  /\ UNCHANGED outsideTimer

\* a skip() without its test of the state
SkipWhenComplete ==
  /\ timerState' = "complete"
  /\ rafPending' = FALSE
  /\ TimerCalled("skip", Fire({"tick", "complete"}))
  /\ Completed
  /\ UNCHANGED <<timerDuration, timerRemaining, timerCallbacks, warningFired>>
  /\ UNCHANGED outsideTimer

\* skip()
Skip ==
  /\ IF timerState = "complete"
     THEN /\ TimerCalled("skip", {})
          /\ UNCHANGED <<timerState, rafPending, completions, sinceStart>>
     ELSE /\ timerState' = "complete"
          /\ rafPending' = FALSE
          /\ TimerCalled("skip", Fire({"tick", "complete"}))
          /\ Completed
  /\ UNCHANGED <<timerDuration, timerRemaining, timerCallbacks, warningFired>>
  /\ UNCHANGED outsideTimer

\* reset(duration)
Reset ==
  /\ \E duration \in TimerDurations :
       /\ timerDuration' = duration
       /\ timerRemaining' = duration
  /\ timerState' = "idle"
  /\ rafPending' = FALSE
  /\ warningFired' = FALSE
  /\ completions' = 0
  /\ TimerCalled("reset", {})
  /\ UNCHANGED <<timerCallbacks, sinceStart>>
  /\ UNCHANGED outsideTimer

\* destroy()
Destroy ==
  /\ timerState' = "complete"
  /\ rafPending' = FALSE
  /\ timerCallbacks' = FALSE
  /\ TimerCalled("destroy", {})
  /\ UNCHANGED <<timerDuration, timerRemaining, warningFired, completions, sinceStart>>
  /\ UNCHANGED outsideTimer

\* a second of the countdown goes by while the timer runs
SecondPasses ==
  /\ timerState = "running"
  /\ timerRemaining > 0
  /\ timerRemaining' = timerRemaining - 1
  /\ UNCHANGED <<timerState, timerDuration, rafPending, timerCallbacks, warningFired, timerCall, completions, sinceStart>>
  /\ UNCHANGED outsideTimer

\* the animation frame arrives: _tick()
Tick ==
  /\ rafPending
  /\ IF timerState # "running"
     THEN /\ rafPending' = FALSE
          /\ TimerCalled("tick", {})
          /\ UNCHANGED <<timerState, warningFired, completions, sinceStart>>
     ELSE IF timerRemaining <= 0
     THEN /\ timerState' = "complete"
          /\ rafPending' = FALSE
          /\ TimerCalled("tick", Fire({"tick", "complete"}))
          /\ Completed
          /\ UNCHANGED warningFired
     ELSE /\ rafPending' = TRUE
          /\ warningFired' = (warningFired \/ timerRemaining <= WARNING_THRESHOLD)
          /\ TimerCalled("tick", Fire(IF ~warningFired /\ timerRemaining <= WARNING_THRESHOLD
                                      THEN {"tick", "warning"} ELSE {"tick"}))
          /\ UNCHANGED <<timerState, completions, sinceStart>>
  /\ UNCHANGED <<timerDuration, timerRemaining, timerCallbacks>>
  /\ UNCHANGED outsideTimer

NextTimer ==
  \/ Start
  \/ Pause
  \/ Resume
  \/ Skip
  \/ Reset
  \/ Destroy
  \/ SecondPasses
  \/ Tick

SpecTimer == Init /\ [][NextTimer]_vars


\* the timer operation `op` ran last
TimerRan(op) == timerCall.op = op

\* what C24 says of each operation: a skip() or a tick in the complete
\* state invokes nothing, a skip() in another state and the tick that finds
\* no time left invoke onComplete, and nothing is invoked once destroy() has
\* run
CompletionRules ==
  /\ (TimerRan("skip") \/ TimerRan("tick")) /\ timerCall.from = "complete"
       => timerCall.fired = {}
  /\ TimerRan("skip") /\ timerCall.from # "complete" /\ timerCall.hadCallbacks
       => timerState = "complete" /\ "complete" \in timerCall.fired
  /\ TimerRan("tick") /\ timerCall.from = "running" /\ timerState = "complete" /\ timerCall.hadCallbacks
       => "complete" \in timerCall.fired
  /\ TimerRan("tick") /\ "complete" \in timerCall.fired
       => timerCall.from = "running" /\ timerRemaining = 0
  /\ timerCall.op # "none" /\ ~timerCall.hadCallbacks => timerCall.fired = {}

\* C24 as stated: a RestTimer invokes onComplete exactly once per countdown,
\* on whichever comes first of the remaining time reaching zero or a skip()
\* made in a state other than complete (idle, running or paused); further
\* skip() calls and ticks after completion invoke nothing until start()
\* begins a new countdown, and nothing is invoked after destroy().
C24_OncePerStart ==
  /\ sinceStart <= 1
  /\ CompletionRules

\* C24 with reset() counted as beginning a new countdown like start():
\* onComplete is invoked exactly once between two armings of the timer, by
\* the first skip() or the tick at zero, and not at all after destroy().
C24_OncePerCountdown ==
  /\ completions <= 1
  /\ timerCallbacks => (timerState = "complete" <=> completions = 1)
  /\ CompletionRules

\* the countdown ran to zero and completed on a tick; the skip() that
\* followed invoked nothing
C24_SkipAfterZero ==
  /\ TimerRan("skip") /\ timerCall.from = "complete" /\ timerCall.hadCallbacks
  /\ timerRemaining = 0 /\ warningFired
  /\ completions = 1 /\ timerCall.fired = {}

(* ------------------------------------------------------------------ *)
(* The session screen (screens/session.js)                             *)
(*                                                                     *)
(* sessionScreen.state, .currentSeries, .seriesDetail, .plan, .timer are *)
(* fields _state, _currentSeries, _seriesDetail (the seriesNumber of   *)
(* each entry), _plan (its number of series, 0 for null) and _timer    *)
(* (an index into .timers, NoTimer for null).  .container says whether *)
(* _container and _abortController are set.  .listeners counts the     *)
(* click listeners registered on the container under the live abort    *)
(* signal, .html is the state whose HTML the container shows, .timers  *)
(* are the RestTimers created so far with the session that created     *)
(* them, .timeouts the setTimeout callbacks not yet run, oldest first, *)
(* and .sessions counts the calls of render().                         *)
(* ------------------------------------------------------------------ *)
\* state.getCurrentDayPlan(): no plan (0), or a plan of one or two series
PlanSizes == {0, 1, 2}

\* RestTimer states that can still fire onComplete
LiveTimerStates == {"idle", "running"}

\* the rest timers of the screen that have neither finished nor been destroyed
LiveTimers(s) == {i \in 1..Len(s.timers) : s.timers[i].state \in LiveTimerStates}

\* _startRestTimer(): a new RestTimer replaces _timer and is started
\* unless settings.restTimerAutoStart is false
startRestTimer(s, autoStart) ==
  [s EXCEPT !.timers = Append(@, [state |-> IF autoStart THEN "running" ELSE "idle",
                                  owner |-> s.sessions]),
            !.timer = Len(s.timers) + 1]

\* _attachEvents(): one more click listener on the container
attachEvents(s) ==
  IF ~s.container THEN s ELSE [s EXCEPT !.listeners = @ + 1]

\* _render(): nothing without a container; the HTML builders read _plan
\* and throw when it is null; otherwise the HTML of the state, a rest
\* timer in RESTING, and _attachEvents()
render(s, autoStart) ==
  IF ~s.container \/ s.plan = 0 THEN s
  ELSE attachEvents(IF s.state = "resting"
                    THEN startRestTimer([s EXCEPT !.html = s.state], autoStart)
                    ELSE [s EXCEPT !.html = s.state])

\* _onStartSession()
onStartSession(s, autoStart) ==
  render([s EXCEPT !.state = "exercising"], autoStart)

\* _onSeriesDone(): records the current series, then COMPLETED when it
\* was the last one of the plan and RESTING otherwise
onSeriesDone(s, autoStart) ==
  render([s EXCEPT !.seriesDetail = Append(@, s.currentSeries),
                   !.state = IF s.currentSeries >= s.plan THEN "completed" ELSE "resting"],
         autoStart)

\* _onImpossible()
onImpossible(s, autoStart) ==
  render([s EXCEPT !.state = "failed"], autoStart)

\* RestTimer.destroy() on _timer, then _timer = null
dropTimer(s) ==
  IF s.timer = NoTimer THEN s
  ELSE [s EXCEPT !.timers[s.timer].state = "destroyed", !.timer = NoTimer]

\* _onRestComplete(): next series, EXERCISING
onRestComplete(s) ==
  render([dropTimer(s) EXCEPT !.currentSeries = @ + 1, !.state = "exercising"], TRUE)

\* _onSkipRest(): RestTimer.skip() on _timer; a timer that is not
\* complete completes and its onComplete schedules _onRestComplete
onSkipRest(s) ==
  IF s.timer # NoTimer /\ s.timers[s.timer].state \in LiveTimerStates
  THEN [s EXCEPT !.timers[s.timer].state = "complete",
                 !.timeouts = Append(@, s.timers[s.timer].owner)]
  ELSE s

\* _handleAction(action): go-feedback, save-failed and the partial-reps
\* buttons change none of the fields modelled here
handleAction(s, action, autoStart) ==
  CASE action = "start-session" -> onStartSession(s, autoStart)
    [] action = "series-done" -> onSeriesDone(s, autoStart)
    [] action = "impossible" -> onImpossible(s, autoStart)
    [] action = "skip-rest" -> onSkipRest(s)
    [] OTHER -> s

\* one handler invocation of the operation in progress: the action, the
\* state it found and left, the series counter it found and left, how
\* many series it recorded and how many rest timers were left running
Logged(s, action, t) ==
  [t EXCEPT !.log = Append(s.log, [action |-> action, from |-> s.state, to |-> t.state,
                                   series |-> s.currentSeries,
                                   next |-> t.currentSeries,
                                   recorded |-> Len(t.seriesDetail) - Len(s.seriesDetail),
                                   live |-> Cardinality(LiveTimers(t))])]

\* a click event runs the k listeners registered when it is dispatched,
\* one after the other, each with the action of the button clicked
RECURSIVE dispatch(_, _, _, _)
dispatch(s, action, autoStart, k) ==
  IF k = 0 THEN s
  ELSE dispatch(Logged(s, action, handleAction(s, action, autoStart)), action, autoStart, k - 1)

\* the data-action buttons in the HTML of each state
Buttons(html) ==
  CASE html = "ready" -> {"start-session"}
    [] html = "exercising" -> {"series-done", "impossible"}
    [] html = "resting" -> {"skip-rest"}
    [] html = "completed" -> {"go-feedback"}
    [] html = "failed" -> {"partial-increment", "save-failed"}
    [] OTHER -> {}

\* what the operation found, for the record of the call
Found(op) ==
  [op |-> op, from |-> sessionScreen.state, series |-> sessionScreen.currentSeries,
   recorded |-> Len(sessionScreen.seriesDetail), handlers |-> sessionScreen.listeners,
   container |-> sessionScreen.container, sessions |-> sessionScreen.sessions]

\* the screen with the log of the operation moved to the record of the call
SessionBecomes(s, found) ==
  /\ sessionScreen' = [s EXCEPT !.log = <<>>]
  /\ sessionCall' = [found EXCEPT !.handlers = Len(s.log)] @@ [log |-> s.log]

\* render(container, params): the router mounts the screen; without a
\* plan of the day only the error message is shown
SessionRender ==
  /\ UNCHANGED outsideSession
  /\ ~sessionScreen.container
  /\ sessionScreen.sessions < MaxSessions
  /\ \E plan \in PlanSizes :
       LET mounted == [sessionScreen EXCEPT !.container = TRUE, !.plan = plan,
                                      !.sessions = @ + 1]
       IN SessionBecomes(
            IF plan = 0 THEN [mounted EXCEPT !.html = "error"]
            ELSE render([mounted EXCEPT !.state = "ready", !.currentSeries = 1,
                                        !.seriesDetail = <<>>], TRUE),
            Found("render") @@ [action |-> "none", stale |-> FALSE])

\* destroy(): the router unmounts the screen; _timer is destroyed, the
\* abort signal removes the listeners
SessionDestroy ==
  /\ UNCHANGED outsideSession
  /\ sessionScreen.container
  /\ SessionBecomes([dropTimer(sessionScreen) EXCEPT !.listeners = 0, !.container = FALSE,
                                              !.plan = 0, !.seriesDetail = <<>>,
                                              !.html = "none"],
                    Found("destroy") @@ [action |-> "none", stale |-> FALSE])

\* the user clicks one of the buttons shown
Click ==
  /\ UNCHANGED outsideSession
  /\ sessionScreen.container
  /\ sessionScreen.listeners >= 1
  /\ sessionScreen.listeners <= MaxListeners
  /\ \E action \in Buttons(sessionScreen.html), autoStart \in BOOLEAN :
       SessionBecomes(dispatch(sessionScreen, action, autoStart, sessionScreen.listeners),
                      Found("click") @@ [action |-> action, stale |-> FALSE])

\* RestTimer._tick() reaches zero: COMPLETE, and onComplete schedules
\* _onRestComplete 300 ms later
RestTimerCompletes ==
  /\ UNCHANGED outsideSession
  /\ \E i \in 1..Len(sessionScreen.timers) :
       /\ sessionScreen.timers[i].state = "running"
       /\ SessionBecomes([sessionScreen EXCEPT !.timers[i].state = "complete",
                                         !.timeouts = Append(@, sessionScreen.timers[i].owner)],
                         Found("timer-complete") @@ [action |-> "none", stale |-> FALSE])

\* has destroy() run for the session numbered n
Destroyed(n) == n < sessionScreen.sessions \/ ~sessionScreen.container

\* the oldest setTimeout callback runs _onRestComplete()
RestTimeout ==
  /\ UNCHANGED outsideSession
  /\ sessionScreen.timeouts # <<>>
  /\ LET s == [sessionScreen EXCEPT !.timeouts = Tail(@)]
     IN SessionBecomes(Logged(s, "rest-complete", onRestComplete(s)),
                       Found("rest-complete")
                         @@ [action |-> "none", stale |-> Destroyed(Head(sessionScreen.timeouts))])

NextSession ==
  \/ SessionRender
  \/ SessionDestroy
  \/ Click
  \/ RestTimerCompletes
  \/ RestTimeout

SpecSession == Init /\ [][NextSession]_vars

\* the fields of the screen stay in their domains
SessionTypeOK ==
  /\ sessionScreen.state \in {"ready", "exercising", "resting", "completed", "failed"}
  /\ sessionScreen.currentSeries >= 1
  /\ sessionScreen.timer \in {NoTimer} \cup (1..Len(sessionScreen.timers))
  /\ sessionScreen.plan \in PlanSizes
  /\ sessionScreen.log = <<>>
  /\ ~sessionScreen.container => sessionScreen.listeners = 0

(* ------------------------------------------------------------------ *)
(* Series recorded by the session screen                               *)
(* ------------------------------------------------------------------ *)
\* the last operation was a click on the button named
Clicked(action) == sessionCall.op = "click" /\ sessionCall.action = action

\* C25: for a plan of N series each click on "series done" records
\* exactly one series, the series counter never exceeds N, and a session
\* that is COMPLETED has recorded exactly the series 1 to N, each once.
C25_OneSeriesPerClick ==
  /\ Clicked("series-done") => Len(sessionScreen.seriesDetail) = sessionCall.recorded + 1
  /\ (sessionScreen.container /\ sessionScreen.plan > 0) => sessionScreen.currentSeries <= sessionScreen.plan
  /\ (sessionScreen.container /\ sessionScreen.state = "completed")
       => sessionScreen.seriesDetail = [i \in 1..sessionScreen.plan |-> i]

\* a click on "series done" with two listeners attached has recorded the
\* first series of a two-series plan twice and started two rest timers
C25_SeriesRecordedTwice ==
  /\ Clicked("series-done") /\ sessionCall.handlers = 2
  /\ sessionScreen.plan = 2 /\ sessionScreen.seriesDetail = <<1, 1>>
  /\ sessionScreen.state = "resting"

(* ------------------------------------------------------------------ *)
(* The state machine of the session screen                             *)
(* ------------------------------------------------------------------ *)
\* the transitions of the header: <<from, to>> for each event
DeclaredTransitions(action) ==
  CASE action = "start-session" -> {<<"ready", "exercising">>}
    [] action = "series-done" -> {<<"exercising", "resting">>, <<"exercising", "completed">>}
    [] action = "impossible" -> {<<"exercising", "failed">>}
    [] action = "rest-complete" -> {<<"resting", "exercising">>}
    [] OTHER -> {}

\* the handler invocations of the last operation
Handled == IF sessionCall.op = "none" THEN <<>> ELSE sessionCall.log

\* the invocation changed neither the state, nor the counter, nor the
\* recorded series
NoEffect(h) == h.to = h.from /\ h.next = h.series /\ h.recorded = 0

\* C26: the state of the session screen changes only along the
\* transitions of its header, "series done" has an effect only in
\* EXERCISING and the rest-complete event only in RESTING, and at most
\* one rest timer exists at a time.
C26_DeclaredTransitionsOnly ==
  /\ \A i \in 1..Len(Handled) :
       /\ Handled[i].from # Handled[i].to
            => <<Handled[i].from, Handled[i].to>> \in DeclaredTransitions(Handled[i].action)
       /\ (Handled[i].action = "series-done" /\ Handled[i].from # "exercising")
            => NoEffect(Handled[i])
       /\ (Handled[i].action = "rest-complete" /\ Handled[i].from # "resting")
            => NoEffect(Handled[i])
  /\ Cardinality(LiveTimers(sessionScreen)) <= 1

\* a second listener has run "series done" in RESTING and started a
\* second rest timer beside the first
C26_SeriesDoneWhileResting ==
  /\ Clicked("series-done") /\ Len(Handled) = 2
  /\ Handled[2].from = "resting" /\ Handled[2].recorded = 1
  /\ Cardinality(LiveTimers(sessionScreen)) = 2

(* ------------------------------------------------------------------ *)
(* Callbacks of a destroyed session                                    *)
(* ------------------------------------------------------------------ *)
\* the delayed rest-complete handler has just run
RestCompleted == sessionCall.op = "rest-complete"

\* C28: once destroy() has run, the delayed rest-complete handler that
\* the destroyed session scheduled changes neither the state nor the
\* series counter, also when the screen has been rendered again.
C28_DestroyedSessionIsSilent ==
  (RestCompleted /\ sessionCall.stale)
    => /\ sessionScreen.state = sessionCall.from
       /\ sessionScreen.currentSeries = sessionCall.series

\* the handler scheduled by the first session has run after the second
\* render() and moved the new session from READY to series 2, EXERCISING
C28_NewSessionAdvanced ==
  /\ RestCompleted /\ sessionCall.stale
  /\ sessionCall.sessions = 2 /\ sessionCall.container /\ sessionCall.from = "ready"
  /\ sessionScreen.state = "exercising" /\ sessionScreen.currentSeries = 2

(* ------------------------------------------------------------------ *)
(* The router (app.js) and the feedback screen (screens/feedback.js)   *)
(*                                                                     *)
(* navigateTo is asynchronous: it takes the _navigating flag and       *)
(* destroys the current screen, later mounts and renders the new one,  *)
(* and at the end sets _currentRoute and releases the flag.  Between   *)
(* these steps other calls of navigateTo arrive.                       *)
(* ------------------------------------------------------------------ *)
\* the keys of ROUTE_CONFIG
Routes == {"onboarding", "dashboard", "test-max", "session", "feedback", "history", "settings"}

\* a hash that names no route
UnknownRoute == "unknown"

\* if (!ROUTE_CONFIG[routeName]) routeName = 'dashboard'
KnownRoute(routeName) == IF routeName \in Routes THEN routeName ELSE "dashboard"

\* the fields of the router that navigateTo reads and writes
Router ==
  [navigating |-> navigating, navigation |-> navigation,
   currentScreen |-> currentScreen, routerCall |-> routerCall]

\* navigateTo(routeName) as called by `source`: returns at once while
\* another navigation is running; otherwise takes the flag and destroys
\* the current screen
navigateTo(r, routeName, source) ==
  IF r.navigating
  THEN [r EXCEPT !.routerCall = [op |-> "navigateTo", route |-> KnownRoute(routeName),
                                 source |-> source, dropped |-> TRUE]]
  ELSE [r EXCEPT !.navigating = TRUE,
                 !.currentScreen = "none",
                 !.navigation = [route |-> KnownRoute(routeName), step |-> "mount"],
                 !.routerCall = [op |-> "navigateTo", route |-> KnownRoute(routeName),
                                 source |-> source, dropped |-> FALSE]]

\* the router after the step
RouterBecomes(r) ==
  /\ navigating' = r.navigating
  /\ navigation' = r.navigation
  /\ currentScreen' = r.currentScreen
  /\ routerCall' = r.routerCall

\* a hashchange event, a click in the navigation bar or a button of the
\* screen shown asks for another route
NavigateTo ==
  /\ UNCHANGED outsideRouter
  /\ \E routeName \in Routes \cup {UnknownRoute} :
       /\ routeName # currentRoute
       /\ RouterBecomes(navigateTo(Router, routeName, "user"))
  /\ UNCHANGED currentRoute

\* FeedbackScreen.render(): without a session of the day, or with one
\* that already has its feedback, the screen calls navigateTo('dashboard')
\* and returns; the other renders ask for nothing
feedbackRender(r, route, awaitingFeedback) ==
  IF route = "feedback" /\ ~awaitingFeedback
  THEN navigateTo(r, "dashboard", "render")
  ELSE [r EXCEPT !.routerCall = [op |-> "render", route |-> route, source |-> "router",
                                 dropped |-> FALSE]]

\* _mountScreen(): the screen of the route becomes the current screen and
\* is rendered, inside the navigation that holds the flag
MountScreen ==
  /\ UNCHANGED outsideRouter
  /\ navigation.step = "mount"
  /\ \E awaitingFeedback \in BOOLEAN :
       RouterBecomes(feedbackRender([Router EXCEPT !.currentScreen = navigation.route,
                                                   !.navigation.step = "finish"],
                                    navigation.route, awaitingFeedback))
  /\ UNCHANGED currentRoute

\* the end of navigateTo: _currentRoute = routeName, and the flag is
\* released in the finally block
FinishNavigation ==
  /\ UNCHANGED outsideRouter
  /\ navigation.step = "finish"
  /\ currentRoute' = navigation.route
  /\ navigating' = FALSE
  /\ navigation' = NoNavigation
  /\ UNCHANGED <<currentScreen, routerCall>>

NextRouter ==
  \/ NavigateTo
  \/ MountScreen
  \/ FinishNavigation

SpecRouter == Init /\ [][NextRouter]_vars

\* a navigation that has started is carried to its end; nothing obliges
\* the user to ask for another route
SpecRouterFair ==
  SpecRouter /\ WF_vars(MountScreen) /\ WF_vars(FinishNavigation)

\* the fields of the router stay in their domains
RouterTypeOK ==
  /\ currentRoute \in Routes \cup {"none"}
  /\ currentScreen \in Routes \cup {"none"}
  /\ navigating \in BOOLEAN
  /\ navigating <=> navigation # NoNavigation

\* the feedback screen has asked for the dashboard during its render
RedirectRequested ==
  /\ routerCall.op = "navigateTo" /\ routerCall.source = "render"
  /\ routerCall.route = "dashboard"

\* C27: when the feedback screen is opened with no session of the day
\* awaiting feedback, the redirect it requests during its render is
\* carried out: the user ends up on the dashboard.
C27_RedirectReachesDashboard ==
  RedirectRequested ~> (currentRoute = "dashboard" /\ ~navigating)

\* C27 as a safety property: no redirect requested by the render of the
\* feedback screen is dropped by the router
C27_RedirectNotDropped == RedirectRequested => ~routerCall.dropped

\* the navigation to the feedback screen has ended on the feedback route
\* with the redirect dropped
C27_LeftOnFeedback ==
  /\ RedirectRequested /\ routerCall.dropped
  /\ currentRoute = "feedback" /\ currentScreen = "feedback" /\ ~navigating

====
